---- MODULE Spec2Model ----
(***************************************************************************)
(* The account-pool request pipeline of twscrape: the QueueClient          *)
(* (queue_client.py), its response classifier and reputation counters,     *)
(* and the paginated stream drivers of API (api.py).  The accounts pool    *)
(* (accounts_pool.py) is not part of the sources; it is modelled from      *)
(* sections 4.A and 4.B of the specification.                              *)
(*                                                                         *)
(* Every client is one call of API._gql_items / _gql_items_with_cursor:    *)
(* an `async with QueueClient(...)` block around the pagination loop.  A   *)
(* client's position (pc) is the await point at which its task is          *)
(* suspended; an action runs the code from one await point to the next.    *)
(* Times are epoch seconds, as utc.ts() returns them.                      *)
(*                                                                         *)
(* Eleven specifications drive the same actions with different transports: *)
(* SpecLife (every way of leaving a client), SpecLock (two clients and     *)
(* locking responses), SpecRep (the reputation counters), SpecStream       *)
(* (pagination over any timeline, and resumption from a saved cursor),     *)
(* SpecShare (two clients on one account), SpecClass (the classifier over  *)
(* every kind of response), SpecPair (the two drivers over the same        *)
(* timeline), SpecInactive (two queues and accounts going inactive),       *)
(* SpecUnknown (exceptions req has no branch for), SpecRetry (a stream     *)
(* with a retry on another account) and SpecLive (two clients on one       *)
(* queue under a fair scheduler).                                          *)
(***************************************************************************)
EXTENDS Integers, Sequences, FiniteSets, TLC

\* ------------------------------------------------------------------ bounds
NPages == 3            \* pages the remote timeline holds
MaxLimit == 2          \* largest caller-specified limit
MaxFaultsLife == 3     \* faults the transport injects in SpecLife
MaxResponsesLock == 2  \* responses the metered transport delivers in SpecLock
MaxFaultsStream == 1   \* faults the transport injects in SpecStream
MaxResponsesRep == 6   \* responses the metered transport delivers in SpecRep
MaxCallsRep == 3       \* API calls the caller makes in SpecRep
MaxResponsesShare == 5 \* responses the metered transport delivers in SpecShare
MaxResponsesClass == 2 \* responses the metered transport delivers in SpecClass
MaxResponsesInactive == 3 \* responses the metered transport delivers in SpecInactive
MaxFaultsUnknown == 4  \* exceptions the transport raises in SpecUnknown
MaxFaultsRetry == 1    \* faults the transport injects in SpecRetry
MaxFaultsLive == 1     \* faults the transport injects in SpecLive
ResetAhead == 900      \* x-rate-limit-reset lies this far after the response

\* --------------------------------------------------------------- constants
SoftErrorThreshold == 5
SoftErrorLockMinutes == 3
BanStrikeMax == 6
BanBackoffBaseMinutes == 60
DayMinutes == 1440
TimeoutLockMinutes == 2
UnknownLockMinutes == 15
MaxTries == 3

Accounts == {"a1", "a2"}
Queues == {"q1", "q2"}
Clients == {"c1", "c2"}
None == "none"

VARIABLES
    now,                \* utc.ts()
    active,             \* pool: account -> active flag
    unlockAt,           \* pool: account -> queue -> unlock-at timestamp
    reqCount,           \* pool: account -> queue -> cumulative request count
    borrowedBy,         \* pool: account -> queue -> client holding the borrow
    raiseWhenNoAccount, \* pool: raise_when_no_account
    softErr,            \* QueueClient._soft_error_counts (username -> count)
    banStrikes,         \* QueueClient._ban_strikes (username -> count)
    xclItems,           \* XClIdGenStore.items (usernames with a generator)
    remote,             \* the remote timeline: page index -> [n, more]
    budget,             \* environment: responses the transport may still charge
    metered,            \* environment: clean responses are charged as well
    calls,              \* environment: API calls the callers still make
    cl                  \* client -> the locals of its call (see InitClient)

vars == <<now, active, unlockAt, reqCount, borrowedBy, raiseWhenNoAccount,
          softErr, banStrikes, xclItems, remote, budget, metered, calls, cl>>
envVars == <<raiseWhenNoAccount, remote, budget, metered, calls>>
poolVars == <<active, unlockAt, reqCount, borrowedBy>>
repVars == <<softErr, banStrikes>>

\* ------------------------------------------------------- python dict helpers
DictGet(m, k) == IF k \in DOMAIN m THEN m[k] ELSE 0
DictDel(m, k) == [x \in DOMAIN m \ {k} |-> m[x]]
DictPut(m, k, v) == [x \in DOMAIN m \cup {k} |-> IF x = k THEN v ELSE m[x]]
EmptyDict == [x \in {} |-> 0]

\* ---------------------------------------------------------------- responses
\* An HTTP response as _check_rep reads it: status, the two rate-limit headers
\* (-1 when absent), the formatted errors in the order "; ".join put them,
\* whether the body has data.user, and whether it carries the timeline page.
ErrKinds == {"E336", "E88", "E326", "E32", "E131", "ENoStatus", "EAuth", "E29", "ESoft"}
NoRep == [status |-> 0, remaining |-> -1, reset |-> -1, errs |-> <<>>,
          dataUser |-> FALSE, page |-> FALSE]
Rep(st, rem, rst, es, du, pg) ==
    [status |-> st, remaining |-> rem, reset |-> rst, errs |-> es,
     dataUser |-> du, page |-> pg]

\* err_msg.startswith("(code) ...") and "..." in err_msg
StartsWith(r, e) == Len(r.errs) > 0 /\ r.errs[1] = e
Contains(r, e) == \E i \in 1..Len(r.errs) : r.errs[i] = e
ContainsAuthorization(r) == Contains(r, "E326") \/ Contains(r, "EAuth")
ErrIsOK(r) == Len(r.errs) = 0
\* err_msg is joined from a set of the formatted errors: the orders the
\* iteration of that set can produce for the errors es
JoinOrders(es) ==
    {p \in [1..Len(es) -> {es[i] : i \in 1..Len(es)}] :
        \A i \in 1..Len(es) : \E j \in 1..Len(es) : p[j] = es[i]}

\* ------------------------------------------------------------------ clients
\* readRetry observes the ReadTimeout/ProxyError branch of req, which keeps no
\* count of its own: the times the current call took it.
InitClient ==
    [pc |-> "idle", queue |-> "q1", mode |-> "pages", limit |-> -1,
     ctx |-> None, ctxReqCount |-> 0,
     unknownRetry |-> 0, connRetry |-> 0, readRetry |-> 0, tries |-> 0, xcTries |-> 0,
     closeAcc |-> None, closeMode |-> "", closeResetAt |-> -1, closeThen |-> "",
     rep |-> NoRep, rule |-> "",
     startCursor |-> 0, kvCursor |-> 0, cur |-> 0, nextCur |-> 0, cnt |-> 0, active |-> TRUE,
     yielded |-> <<>>, reqs |-> <<>>, outcome |-> ""]

\* ------------------------------------------------------ QueueClient helpers
\* _close_ctx returned: "exit" is __aexit__; "retry" is the HandledError the
\* classifier raises next (req: continue); "loop" is the unknown-exception
\* branch of req falling through to the next iteration.  self.ctx is None, so
\* the next iteration of req awaits the pool.
AfterClose(s, then) ==
    IF then = "exit" THEN [s EXCEPT !.pc = "done"]
    ELSE [s EXCEPT !.pc = "req_wait"]

\* _close_ctx as it would be if it left self.ctx in place
CloseCtxKeepsCtx(s, resetAt, inactive, then) ==
    IF s.ctx = None THEN AfterClose(s, then)
    ELSE [s EXCEPT !.pc = "close_aclose",
                   !.closeAcc = s.ctx,
                   !.closeMode = IF inactive THEN "inactive"
                                 ELSE IF resetAt > 0 THEN "lock" ELSE "unlock",
                   !.closeResetAt = resetAt,
                   !.closeThen = then]

\* QueueClient._close_ctx up to its first await: self.ctx is cleared before
\* `await ctx.aclose()`.
CloseCtx(s, resetAt, inactive, then) ==
    IF s.ctx = None THEN AfterClose(s, then)
    ELSE [s EXCEPT !.pc = "close_aclose",
                   !.closeAcc = s.ctx,
                   !.ctx = None,
                   !.closeMode = IF inactive THEN "inactive"
                                 ELSE IF resetAt > 0 THEN "lock" ELSE "unlock",
                   !.closeResetAt = resetAt,
                   !.closeThen = then]

\* QueueClient.__aexit__, entered when the `async with` block is left
AExit(s, how) == CloseCtx([s EXCEPT !.outcome = how], -1, FALSE, "exit")

\* XClIdGenStore.get up to its first await: a cached generator is returned
\* at once (the request is sent), otherwise XClIdGen.create() is awaited.
XClGet(s, items, fresh) ==
    IF s.ctx \in items /\ ~fresh
    THEN [s EXCEPT !.pc = "http", !.rep = NoRep]
    ELSE [s EXCEPT !.pc = "xclid", !.xcTries = 0, !.rep = NoRep]

\* Ctx.req from its start
CtxReq(s, items) == XClGet([s EXCEPT !.tries = 0], items, FALSE)

\* One iteration of `while True` in QueueClient.req: _get_ctx returns the
\* held Ctx at once or awaits the pool.
ReqIter(s, items) ==
    IF s.ctx = None THEN [s EXCEPT !.pc = "req_wait"] ELSE CtxReq(s, items)

\* --------------------------------------------------------- stream driver
EmptyPage == [n |-> 0, more |-> FALSE]
PageAt(rem, k) == IF k + 1 <= NPages THEN rem[k + 1] ELSE EmptyPage

\* _is_end as it would be with the limit test inverted
IsEndLimitInverted(n, cur, cnt, lim) ==
    [rep |-> n > 0,
     cnt |-> cnt + n,
     active |-> cur # 0 /\ (lim > 0 /\ cnt + n >= lim)]

\* _is_end as it would be with `>` for `>=` in the limit test
IsEndLimitStrict(n, cur, cnt, lim) ==
    [rep |-> n > 0,
     cnt |-> cnt + n,
     active |-> cur # 0 /\ ~(lim > 0 /\ cnt + n > lim)]

\* _is_end as it would be if it returned the response whatever its entries
IsEndKeepsEmpty(n, cur, cnt, lim) ==
    [rep |-> TRUE,
     cnt |-> cnt + n,
     active |-> cur # 0 /\ ~(lim > 0 /\ cnt + n >= lim)]

\* API._is_end
IsEnd(n, cur, cnt, lim) ==
    [rep |-> n > 0,
     cnt |-> cnt + n,
     active |-> cur # 0 /\ ~(lim > 0 /\ cnt + n >= lim)]

\* the loop body as it would be if it built the request from the loop's own
\* cursor alone, dropping the one the caller passed in kv
BeginGetDropsSavedCursor(s, items) ==
    LET s1 == [s EXCEPT !.kvCursor = s.cur,
                        !.reqs = Append(@, s.cur),
                        !.unknownRetry = 0,
                        !.connRetry = 0,
                        !.readRetry = 0,
                        !.rule = ""]
    IN  ReqIter(s1, items)

\* The loop body of _gql_items up to client.get: the held cursor is written
\* into kv (params["variables"] is kv itself), then QueueClient.req starts.
BeginGet(s, items) ==
    LET kc == IF s.cur # 0 THEN s.cur ELSE s.kvCursor
        s1 == [s EXCEPT !.kvCursor = kc,
                        !.reqs = Append(@, kc),
                        !.unknownRetry = 0,
                        !.connRetry = 0,
                        !.readRetry = 0,
                        !.rule = ""]
    IN  ReqIter(s1, items)

\* `while active:` of the drivers
Loop(s, items) == IF s.active THEN BeginGet(s, items) ELSE AExit(s, "end")

\* the driver as it would be if a None from client.get cost the account
OnNullMarksInactive(s) == CloseCtx([s EXCEPT !.outcome = "null"], -1, TRUE, "exit")

\* client.get returned None
OnNull(s) == AExit(s, "null")

\* client.get returned rep: filter the entries, take the cursor, _is_end,
\* then return or yield.  The page the remote serves for cursor k is k + 1,
\* and the cursor it hands out with page i is i.
OnResponse(s, r, rem) ==
    LET pg == IF r.page THEN PageAt(rem, s.kvCursor) ELSE EmptyPage
        id == s.kvCursor + 1
        nc == IF pg.more THEN id ELSE 0
        e  == IsEnd(pg.n, nc, s.cnt, s.limit)
        s1 == [s EXCEPT !.cur = IF s.mode = "pages" THEN nc ELSE @,
                        !.nextCur = IF s.mode = "pages" THEN @ ELSE nc,
                        !.cnt = e.cnt,
                        !.active = e.active]
    IN  IF ~e.rep THEN AExit(s1, "empty")
        ELSE [s1 EXCEPT !.pc = "yield",
                        !.yielded = Append(@, <<id, IF s.mode = "pages" THEN -1 ELSE nc>>)]

\* _gql_items_with_cursor as it would be without `cur = next_cursor`
OnResumeKeepsCursor(s, items) == Loop(s, items)

\* The pages a driver yields from cursor k on, cnt real entries in, when every
\* client.get returns the page asked for: the loop of _gql_items unrolled.
RECURSIVE RunPages(_, _, _, _)
RunPages(rem, k, cnt, lim) ==
    LET pg == PageAt(rem, k)
        nc == IF pg.more THEN k + 1 ELSE 0
        e  == IsEnd(pg.n, nc, cnt, lim)
    IN  IF ~e.rep THEN <<>>
        ELSE <<k + 1>> \o (IF e.active THEN RunPages(rem, k + 1, e.cnt, lim) ELSE <<>>)

\* The generator is resumed after a yield: _gql_items_with_cursor advances
\* cur only now.
OnResume(s, items) ==
    Loop([s EXCEPT !.cur = IF s.mode = "pages" THEN @ ELSE s.nextCur], items)

\* ------------------------------------------------------ response classifier
RECURSIVE SumBanBackoff(_)
\* sum(60 * (2 ** i) for i in range(k))
SumBanBackoff(k) == IF k <= 0 THEN 0 ELSE SumBanBackoff(k - 1) + 60 * (2 ^ (k - 1))

Min(a, b) == IF a <= b THEN a ELSE b

\* backoff_minutes as it would be without the 24-hour cap
BanBackoffUncapped(strikes) == BanBackoffBaseMinutes * (2 ^ (strikes - 1))

\* backoff_minutes of _handle_ban_strike
BanBackoffMinutes(strikes) ==
    LET base_backoff == BanBackoffBaseMinutes * (2 ^ (strikes - 1))
        cumulative_so_far == SumBanBackoff(strikes - 1)
        remaining_to_24hr == DayMinutes - cumulative_so_far
    IN  Min(base_backoff, remaining_to_24hr)

\* The verdict of a classifier branch: what _check_rep does next (act), the
\* _close_ctx call it makes (close, inactive, resetAt) and the two maps.
Verdict(rule, act, close, inactive, resetAt, soft, strikes) ==
    [rule |-> rule, act |-> act, close |-> close, inactive |-> inactive,
     resetAt |-> resetAt, soft |-> soft, strikes |-> strikes]

\* _handle_ban_strike as it would be with `>` for `>=`
HandleBanStrikeLate(a, soft, strikes, t) ==
    LET n == DictGet(strikes, a) + 1
    IN  IF n > BanStrikeMax
        THEN Verdict("ban_inactive", "handled", TRUE, TRUE, -1, soft, DictDel(strikes, a))
        ELSE Verdict("ban", "handled", TRUE, FALSE, t + 60 * BanBackoffMinutes(n),
                     soft, DictPut(strikes, a, n))

\* _handle_ban_strike as it would be if it wrote 1 where it adds 1
HandleBanStrikeOverwrites(a, soft, strikes, t) ==
    LET n == 1
    IN  IF n >= BanStrikeMax
        THEN Verdict("ban_inactive", "handled", TRUE, TRUE, -1, soft, DictDel(strikes, a))
        ELSE Verdict("ban", "handled", TRUE, FALSE, t + 60 * BanBackoffMinutes(n),
                     soft, DictPut(strikes, a, n))

\* QueueClient._handle_ban_strike
HandleBanStrike(a, soft, strikes, t) ==
    LET n == DictGet(strikes, a) + 1
    IN  IF n >= BanStrikeMax
        THEN Verdict("ban_inactive", "handled", TRUE, TRUE, -1, soft, DictDel(strikes, a))
        ELSE Verdict("ban", "handled", TRUE, FALSE, t + 60 * BanBackoffMinutes(n),
                     soft, DictPut(strikes, a, n))

\* _handle_soft_error as it would be if the threshold lock kept the count
HandleSoftErrorKeepsCount(r, a, soft, strikes, t) ==
    IF Contains(r, "E29")
    THEN Verdict("soft_timeout", "handled", TRUE, FALSE, t + 60 * TimeoutLockMinutes,
                 soft, strikes)
    ELSE LET count == DictGet(soft, a) + 1
         IN  IF count >= SoftErrorThreshold
             THEN Verdict("soft_lock", "handled", TRUE, FALSE,
                          t + 60 * SoftErrorLockMinutes, DictPut(soft, a, count), strikes)
             ELSE Verdict("soft", "return", FALSE, FALSE, -1, DictPut(soft, a, count), strikes)

\* _handle_soft_error as it would be if it counted before looking for Timeout
HandleSoftErrorCountsTimeout(r, a, soft, strikes, t) ==
    LET count == DictGet(soft, a) + 1
    IN  IF Contains(r, "E29")
        THEN Verdict("soft_timeout", "handled", TRUE, FALSE, t + 60 * TimeoutLockMinutes,
                     DictPut(soft, a, count), strikes)
        ELSE IF count >= SoftErrorThreshold
        THEN Verdict("soft_lock", "handled", TRUE, FALSE,
                     t + 60 * SoftErrorLockMinutes, DictPut(soft, a, 0), strikes)
        ELSE Verdict("soft", "return", FALSE, FALSE, -1, DictPut(soft, a, count), strikes)

\* _handle_soft_error as it would be if the Timeout lock left out utc.ts()
HandleSoftErrorAbsoluteLock(r, a, soft, strikes, t) ==
    IF Contains(r, "E29")
    THEN Verdict("soft_timeout", "handled", TRUE, FALSE, 60 * TimeoutLockMinutes,
                 soft, strikes)
    ELSE LET count == DictGet(soft, a) + 1
         IN  IF count >= SoftErrorThreshold
             THEN Verdict("soft_lock", "handled", TRUE, FALSE,
                          t + 60 * SoftErrorLockMinutes, DictPut(soft, a, 0), strikes)
             ELSE Verdict("soft", "return", FALSE, FALSE, -1, DictPut(soft, a, count), strikes)

\* QueueClient._handle_soft_error
HandleSoftError(r, a, soft, strikes, t) ==
    IF Contains(r, "E29")
    THEN Verdict("soft_timeout", "handled", TRUE, FALSE, t + 60 * TimeoutLockMinutes,
                 soft, strikes)
    ELSE LET count == DictGet(soft, a) + 1
         IN  IF count >= SoftErrorThreshold
             THEN Verdict("soft_lock", "handled", TRUE, FALSE,
                          t + 60 * SoftErrorLockMinutes, DictPut(soft, a, 0), strikes)
             ELSE Verdict("soft", "return", FALSE, FALSE, -1, DictPut(soft, a, count), strikes)

\* the OK path as it would be if it reset the soft-error entry only
OkPathKeepsStrikes(r, a, soft, strikes, t) ==
    IF r.status >= 400
    THEN Verdict("ok_http_fail", "handled", TRUE, FALSE, t + 60 * UnknownLockMinutes,
                 DictDel(soft, a), strikes)
    ELSE Verdict("ok", "return", FALSE, FALSE, -1, DictDel(soft, a), strikes)

\* the OK path as it would be without raise_for_status
OkPathReturnsFailure(r, a, soft, strikes, t) ==
    Verdict("ok", "return", FALSE, FALSE, -1, DictDel(soft, a), DictDel(strikes, a))

\* QueueClient._reset_soft_errors, then raise_for_status
OkPath(r, a, soft, strikes, t) ==
    IF r.status >= 400
    THEN Verdict("ok_http_fail", "handled", TRUE, FALSE, t + 60 * UnknownLockMinutes,
                 DictDel(soft, a), DictDel(strikes, a))
    ELSE Verdict("ok", "return", FALSE, FALSE, -1, DictDel(soft, a), DictDel(strikes, a))

\* _check_rep as it would be if it took x-rate-limit-reset for a delay
CheckRepResetIsDelay(r, a, soft, strikes, t) ==
    LET same(rule, act) == Verdict(rule, act, FALSE, FALSE, -1, soft, strikes)
        dep131 == StartsWith(r, "E131")
        rewritten == dep131 /\ r.status = 200 /\ r.dataUser
        r2 == IF rewritten THEN [r EXCEPT !.errs = <<>>] ELSE r
    IN  IF StartsWith(r, "E336") THEN same("flags336", "exit")
        ELSE IF r.remaining = 0 /\ r.reset > 0
        THEN Verdict("hard", "handled", TRUE, FALSE, t + r.reset, soft, strikes)
        ELSE IF StartsWith(r, "E88") /\ r.remaining > 0
        THEN HandleBanStrike(a, soft, strikes, t)
        ELSE IF StartsWith(r, "E326")
        THEN Verdict("denied326", "handled", TRUE, TRUE, -1, soft, strikes)
        ELSE IF StartsWith(r, "E32")
        THEN Verdict("auth32", "handled", TRUE, TRUE, -1, soft, strikes)
        ELSE IF ErrIsOK(r) /\ r.status = 403
        THEN Verdict("http403", "handled", TRUE, TRUE, -1, soft, strikes)
        ELSE IF dep131 /\ ~rewritten THEN same("dep131", "abort")
        ELSE IF r2.status = 200 /\ Contains(r2, "ENoStatus") THEN same("no_status", "return")
        ELSE IF r2.status = 200 /\ ContainsAuthorization(r2) THEN same("authorization", "return")
        ELSE IF ~ErrIsOK(r2) THEN HandleSoftError(r2, a, soft, strikes, t)
        ELSE OkPath(r2, a, soft, strikes, t)

\* _check_rep as it would be with the (326) test ahead of the rate-limit test
CheckRepDeniedFirst(r, a, soft, strikes, t) ==
    LET same(rule, act) == Verdict(rule, act, FALSE, FALSE, -1, soft, strikes)
        dep131 == StartsWith(r, "E131")
        rewritten == dep131 /\ r.status = 200 /\ r.dataUser
        r2 == IF rewritten THEN [r EXCEPT !.errs = <<>>] ELSE r
    IN  IF StartsWith(r, "E336") THEN same("flags336", "exit")
        ELSE IF StartsWith(r, "E326")
        THEN Verdict("denied326", "handled", TRUE, TRUE, -1, soft, strikes)
        ELSE IF r.remaining = 0 /\ r.reset > 0
        THEN Verdict("hard", "handled", TRUE, FALSE, r.reset, soft, strikes)
        ELSE IF StartsWith(r, "E88") /\ r.remaining > 0
        THEN HandleBanStrike(a, soft, strikes, t)
        ELSE IF StartsWith(r, "E32")
        THEN Verdict("auth32", "handled", TRUE, TRUE, -1, soft, strikes)
        ELSE IF ErrIsOK(r) /\ r.status = 403
        THEN Verdict("http403", "handled", TRUE, TRUE, -1, soft, strikes)
        ELSE IF dep131 /\ ~rewritten THEN same("dep131", "abort")
        ELSE IF r2.status = 200 /\ Contains(r2, "ENoStatus") THEN same("no_status", "return")
        ELSE IF r2.status = 200 /\ ContainsAuthorization(r2) THEN same("authorization", "return")
        ELSE IF ~ErrIsOK(r2) THEN HandleSoftError(r2, a, soft, strikes, t)
        ELSE OkPath(r2, a, soft, strikes, t)

\* _check_rep as it would be if an empty 403 cost a 15-minute lock
CheckRepForbiddenLocks(r, a, soft, strikes, t) ==
    LET same(rule, act) == Verdict(rule, act, FALSE, FALSE, -1, soft, strikes)
        dep131 == StartsWith(r, "E131")
        rewritten == dep131 /\ r.status = 200 /\ r.dataUser
        r2 == IF rewritten THEN [r EXCEPT !.errs = <<>>] ELSE r
    IN  IF StartsWith(r, "E336") THEN same("flags336", "exit")
        ELSE IF r.remaining = 0 /\ r.reset > 0
        THEN Verdict("hard", "handled", TRUE, FALSE, r.reset, soft, strikes)
        ELSE IF StartsWith(r, "E88") /\ r.remaining > 0
        THEN HandleBanStrike(a, soft, strikes, t)
        ELSE IF StartsWith(r, "E326")
        THEN Verdict("denied326", "handled", TRUE, TRUE, -1, soft, strikes)
        ELSE IF StartsWith(r, "E32")
        THEN Verdict("auth32", "handled", TRUE, TRUE, -1, soft, strikes)
        ELSE IF ErrIsOK(r) /\ r.status = 403
        THEN Verdict("http403", "handled", TRUE, FALSE, t + 60 * UnknownLockMinutes,
                     soft, strikes)
        ELSE IF dep131 /\ ~rewritten THEN same("dep131", "abort")
        ELSE IF r2.status = 200 /\ Contains(r2, "ENoStatus") THEN same("no_status", "return")
        ELSE IF r2.status = 200 /\ ContainsAuthorization(r2) THEN same("authorization", "return")
        ELSE IF ~ErrIsOK(r2) THEN HandleSoftError(r2, a, soft, strikes, t)
        ELSE OkPath(r2, a, soft, strikes, t)

\* _check_rep as it would be if (131) at status 200 were let through without
\* looking for data.user
CheckRepIgnoresData(r, a, soft, strikes, t) ==
    LET same(rule, act) == Verdict(rule, act, FALSE, FALSE, -1, soft, strikes)
        dep131 == StartsWith(r, "E131")
        rewritten == dep131 /\ r.status = 200
        r2 == IF rewritten THEN [r EXCEPT !.errs = <<>>] ELSE r
    IN  IF StartsWith(r, "E336") THEN same("flags336", "exit")
        ELSE IF r.remaining = 0 /\ r.reset > 0
        THEN Verdict("hard", "handled", TRUE, FALSE, r.reset, soft, strikes)
        ELSE IF StartsWith(r, "E88") /\ r.remaining > 0
        THEN HandleBanStrike(a, soft, strikes, t)
        ELSE IF StartsWith(r, "E326")
        THEN Verdict("denied326", "handled", TRUE, TRUE, -1, soft, strikes)
        ELSE IF StartsWith(r, "E32")
        THEN Verdict("auth32", "handled", TRUE, TRUE, -1, soft, strikes)
        ELSE IF ErrIsOK(r) /\ r.status = 403
        THEN Verdict("http403", "handled", TRUE, TRUE, -1, soft, strikes)
        ELSE IF dep131 /\ ~rewritten THEN same("dep131", "abort")
        ELSE IF r2.status = 200 /\ Contains(r2, "ENoStatus") THEN same("no_status", "return")
        ELSE IF r2.status = 200 /\ ContainsAuthorization(r2) THEN same("authorization", "return")
        ELSE IF ~ErrIsOK(r2) THEN HandleSoftError(r2, a, soft, strikes, t)
        ELSE OkPath(r2, a, soft, strikes, t)

\* _check_rep as it would be if the two ignored errors counted as success
CheckRepIgnoredIsOk(r, a, soft, strikes, t) ==
    LET same(rule, act) == Verdict(rule, act, FALSE, FALSE, -1, soft, strikes)
        dep131 == StartsWith(r, "E131")
        rewritten == dep131 /\ r.status = 200 /\ r.dataUser
        r2 == IF rewritten THEN [r EXCEPT !.errs = <<>>] ELSE r
    IN  IF StartsWith(r, "E336") THEN same("flags336", "exit")
        ELSE IF r.remaining = 0 /\ r.reset > 0
        THEN Verdict("hard", "handled", TRUE, FALSE, r.reset, soft, strikes)
        ELSE IF StartsWith(r, "E88") /\ r.remaining > 0
        THEN HandleBanStrike(a, soft, strikes, t)
        ELSE IF StartsWith(r, "E326")
        THEN Verdict("denied326", "handled", TRUE, TRUE, -1, soft, strikes)
        ELSE IF StartsWith(r, "E32")
        THEN Verdict("auth32", "handled", TRUE, TRUE, -1, soft, strikes)
        ELSE IF ErrIsOK(r) /\ r.status = 403
        THEN Verdict("http403", "handled", TRUE, TRUE, -1, soft, strikes)
        ELSE IF dep131 /\ ~rewritten THEN same("dep131", "abort")
        ELSE IF r2.status = 200 /\ Contains(r2, "ENoStatus")
        THEN Verdict("no_status", "return", FALSE, FALSE, -1, DictDel(soft, a), DictDel(strikes, a))
        ELSE IF r2.status = 200 /\ ContainsAuthorization(r2)
        THEN Verdict("authorization", "return", FALSE, FALSE, -1, DictDel(soft, a), DictDel(strikes, a))
        ELSE IF ~ErrIsOK(r2) THEN HandleSoftError(r2, a, soft, strikes, t)
        ELSE OkPath(r2, a, soft, strikes, t)

\* QueueClient._check_rep for a response served by account a at time t
CheckRep(r, a, soft, strikes, t) ==
    LET same(rule, act) == Verdict(rule, act, FALSE, FALSE, -1, soft, strikes)
        \* the (131) branch rewrites err_msg to "OK" when the data is there
        dep131 == StartsWith(r, "E131")
        rewritten == dep131 /\ r.status = 200 /\ r.dataUser
        r2 == IF rewritten THEN [r EXCEPT !.errs = <<>>] ELSE r
    IN  IF StartsWith(r, "E336") THEN same("flags336", "exit")
        ELSE IF r.remaining = 0 /\ r.reset > 0
        THEN Verdict("hard", "handled", TRUE, FALSE, r.reset, soft, strikes)
        ELSE IF StartsWith(r, "E88") /\ r.remaining > 0
        THEN HandleBanStrike(a, soft, strikes, t)
        ELSE IF StartsWith(r, "E326")
        THEN Verdict("denied326", "handled", TRUE, TRUE, -1, soft, strikes)
        ELSE IF StartsWith(r, "E32")
        THEN Verdict("auth32", "handled", TRUE, TRUE, -1, soft, strikes)
        ELSE IF ErrIsOK(r) /\ r.status = 403
        THEN Verdict("http403", "handled", TRUE, TRUE, -1, soft, strikes)
        ELSE IF dep131 /\ ~rewritten THEN same("dep131", "abort")
        ELSE IF r2.status = 200 /\ Contains(r2, "ENoStatus") THEN same("no_status", "return")
        ELSE IF r2.status = 200 /\ ContainsAuthorization(r2) THEN same("authorization", "return")
        ELSE IF ~ErrIsOK(r2) THEN HandleSoftError(r2, a, soft, strikes, t)
        ELSE OkPath(r2, a, soft, strikes, t)

\* ------------------------------------------------------------ accounts pool
\* get_for_queue_or_wait may hand out a for q: active, not borrowed for q,
\* and its unlock-at for q has passed.
Eligible(a, q) == active[a] /\ borrowedBy[a][q] = None /\ unlockAt[a][q] <= now

\* next_available orders by unlock-at ascending
FirstEligible(a, q) ==
    /\ Eligible(a, q)
    /\ \A b \in Accounts : Eligible(b, q) => unlockAt[a][q] <= unlockAt[b][q]

\* the wait ends without an account: raise_when_no_account is set and no
\* active account could ever serve the queue
NoAccount == raiseWhenNoAccount /\ \A a \in Accounts : ~active[a]

\* lock_until(username, queue, ts, inc_req_count); the borrow is released
PoolLockUntil(a, q, ts, inc) ==
    /\ unlockAt' = [unlockAt EXCEPT ![a][q] = ts]
    /\ reqCount' = [reqCount EXCEPT ![a][q] = @ + inc]
    /\ borrowedBy' = [borrowedBy EXCEPT ![a][q] = None]
    /\ UNCHANGED active

\* unlock(username, queue, inc_req_count): lock_until with ts = now
PoolUnlock(a, q, inc) == PoolLockUntil(a, q, now, inc)

\* mark_inactive(username, msg): active = false, every borrow of it released
PoolMarkInactive(a) ==
    /\ active' = [active EXCEPT ![a] = FALSE]
    /\ borrowedBy' = [borrowedBy EXCEPT ![a] = [q \in Queues |-> None]]
    /\ UNCHANGED <<unlockAt, reqCount>>

\* ------------------------------------------------------------------ actions
\* A clean response: status 200, no errors, not rate limited.  Anything else
\* the transport does is a fault.  The transport injects a bounded number of
\* faults; a metered transport delivers a bounded number of responses.
IsClean(r) == r.status = 200 /\ r.errs = <<>> /\ r.remaining # 0

Spend(cost) == budget >= cost /\ budget' = budget - cost /\ UNCHANGED metered

Cost(r) == IF IsClean(r) /\ ~metered THEN 0 ELSE 1

\* A caller starts a stream: API._gql_items (mode "pages") or
\* _gql_items_with_cursor, with a limit and possibly a saved cursor in kv;
\* QueueClient.__aenter__ awaits the pool.
Start(c, q, m, lim, kc) ==
    /\ cl[c].pc \in {"idle", "done"}
    /\ calls > 0
    /\ calls' = calls - 1
    /\ cl' = [cl EXCEPT ![c] = [InitClient EXCEPT !.pc = "aenter_wait", !.queue = q,
                                                  !.mode = m, !.limit = lim,
                                                  !.startCursor = kc,
                                                  !.kvCursor = kc]]
    /\ UNCHANGED <<now, poolVars, repVars, xclItems, raiseWhenNoAccount, remote, budget, metered>>

\* _get_ctx: the pool hands account a to the client
Acquire(c, a) ==
    LET s == cl[c]
        s1 == [s EXCEPT !.ctx = a, !.ctxReqCount = 0]
    IN  /\ s.pc \in {"aenter_wait", "req_wait"}
        /\ FirstEligible(a, s.queue)
        /\ borrowedBy' = [borrowedBy EXCEPT ![a][s.queue] = c]
        /\ cl' = [cl EXCEPT ![c] = IF s.pc = "aenter_wait" THEN Loop(s1, xclItems)
                                   ELSE CtxReq(s1, xclItems)]
        /\ UNCHANGED <<now, active, unlockAt, reqCount, repVars, xclItems, envVars>>

\* _get_ctx: the pool returns None
AcquireNone(c) ==
    LET s == cl[c]
    IN  /\ s.pc \in {"aenter_wait", "req_wait"}
        /\ NoAccount
        /\ cl' = [cl EXCEPT ![c] = IF s.pc = "aenter_wait" THEN Loop(s, xclItems)
                                   ELSE OnNull(s)]
        /\ UNCHANGED <<now, poolVars, repVars, xclItems, envVars>>

\* XClIdGen.create() finished: the generator is stored and the request is
\* sent, or HTTPStatusError is retried (MaxTries attempts, then AbortReqError)
XclCreate(c, ok) ==
    LET s == cl[c]
        s1 == [s EXCEPT !.xcTries = @ + 1]
    IN  /\ s.pc = "xclid"
        /\ IF ok
           THEN /\ xclItems' = xclItems \cup {s.ctx}
                /\ cl' = [cl EXCEPT ![c] = [s EXCEPT !.pc = "http"]]
           ELSE /\ xclItems' = xclItems
                /\ cl' = [cl EXCEPT ![c] = IF s1.xcTries >= MaxTries
                                           THEN OnNull([s1 EXCEPT !.rule = "abort_xclid"])
                                           ELSE s1]
        /\ Spend(IF ok THEN 0 ELSE 1)
        /\ UNCHANGED <<now, poolVars, repVars, raiseWhenNoAccount, remote, calls>>

\* req as it would be if HandledError ended the call with None
ApplyVerdictGivesUp(s, r, v, rem) ==
    LET s1 == [s EXCEPT !.rep = r, !.rule = v.rule]
    IN  CASE v.act = "return" ->
                OnResponse([s1 EXCEPT !.ctxReqCount = @ + 1,
                                      !.unknownRetry = 0,
                                      !.connRetry = 0], r, rem)
          [] v.act = "handled" ->
                CloseCtx([s1 EXCEPT !.outcome = "null"], v.resetAt, v.inactive, "exit")
          [] v.act = "abort" -> OnNull(s1)
          [] v.act = "exit" -> AExit(s1, "exit")

\* req as it would be without `ctx.req_count += 1`
ApplyVerdictForgetsCount(s, r, v, rem) ==
    LET s1 == [s EXCEPT !.rep = r, !.rule = v.rule]
    IN  CASE v.act = "return" ->
                OnResponse([s1 EXCEPT !.unknownRetry = 0, !.connRetry = 0], r, rem)
          [] v.act = "handled" -> CloseCtx(s1, v.resetAt, v.inactive, "retry")
          [] v.act = "abort" -> OnNull(s1)
          [] v.act = "exit" -> AExit(s1, "exit")

\* req as it would be if a retry on another account moved on to the next
\* cursor
ApplyVerdictRetrySkips(s, r, v, rem) ==
    LET s1 == [s EXCEPT !.rep = r, !.rule = v.rule]
    IN  CASE v.act = "return" ->
                OnResponse([s1 EXCEPT !.ctxReqCount = @ + 1,
                                      !.unknownRetry = 0,
                                      !.connRetry = 0], r, rem)
          [] v.act = "handled" ->
                CloseCtx([s1 EXCEPT !.kvCursor = @ + 1], v.resetAt, v.inactive, "retry")
          [] v.act = "abort" -> OnNull(s1)
          [] v.act = "exit" -> AExit(s1, "exit")

\* req as it would be if _check_rep raised HandledError with the Ctx held
ApplyVerdictRaisesUnreleased(s, r, v, rem) ==
    LET s1 == [s EXCEPT !.rep = r, !.rule = v.rule]
    IN  CASE v.act = "return" ->
                OnResponse([s1 EXCEPT !.ctxReqCount = @ + 1,
                                      !.unknownRetry = 0,
                                      !.connRetry = 0], r, rem)
          [] v.act = "handled" -> [s1 EXCEPT !.pc = "req_wait"]
          [] v.act = "abort" -> OnNull(s1)
          [] v.act = "exit" -> AExit(s1, "exit")

\* What req does with the classifier's verdict v for response r
ApplyVerdict(s, r, v, rem) ==
    LET s1 == [s EXCEPT !.rep = r, !.rule = v.rule]
    IN  CASE v.act = "return" ->
                OnResponse([s1 EXCEPT !.ctxReqCount = @ + 1,
                                      !.unknownRetry = 0,
                                      !.connRetry = 0], r, rem)
          [] v.act = "handled" -> CloseCtx(s1, v.resetAt, v.inactive, "retry")
          [] v.act = "abort" -> OnNull(s1)
          [] v.act = "exit" -> AExit(s1, "exit")

\* Ctx.req as it would be with `<=` for `<` in its loop test
On404ExtraRetry(s, r, items) ==
    LET s1 == [s EXCEPT !.tries = @ + 1]
    IN  IF s1.tries <= MaxTries THEN XClGet(s1, items, TRUE)
        ELSE OnNull([s1 EXCEPT !.rep = r, !.rule = "abort404"])

\* Ctx.req got HTTP 404: a fresh generator and another try, MaxTries in all
On404(s, r, items) ==
    LET s1 == [s EXCEPT !.tries = @ + 1]
    IN  IF s1.tries < MaxTries THEN XClGet(s1, items, TRUE)
        ELSE OnNull([s1 EXCEPT !.rep = r, !.rule = "abort404"])

\* clt.request returned response r: Ctx.req, then _check_rep up to its first
\* await, then the rest of req and of the driver's loop body
HttpResponse(c, r) ==
    LET s == cl[c]
        v == CheckRep(r, s.ctx, softErr, banStrikes, now)
    IN  /\ s.pc = "http"
        /\ IF r.status = 404
           THEN /\ cl' = [cl EXCEPT ![c] = On404(s, r, xclItems)]
                /\ UNCHANGED repVars
           ELSE /\ cl' = [cl EXCEPT ![c] = ApplyVerdict(s, r, v, remote)]
                /\ softErr' = v.soft
                /\ banStrikes' = v.strikes
        /\ Spend(Cost(r))
        /\ UNCHANGED <<now, poolVars, xclItems, raiseWhenNoAccount, remote, calls>>

\* the except branches as they would be if the third unknown exception were
\* re-raised like a connect error
OnErrorRaisesUnknown(s, kind, items, t) ==
    CASE kind = "read_timeout" -> ReqIter([s EXCEPT !.readRetry = @ + 1], items)
      [] kind = "connect" ->
            LET s1 == [s EXCEPT !.connRetry = @ + 1]
            IN  IF s1.connRetry >= MaxTries THEN AExit(s1, "error")
                ELSE ReqIter(s1, items)
      [] kind = "unknown" ->
            LET s1 == [s EXCEPT !.unknownRetry = @ + 1]
            IN  IF s1.unknownRetry >= MaxTries THEN AExit(s1, "error")
                ELSE ReqIter(s1, items)

\* the except branches as they would be with `>` for `>=` in the connect test
OnErrorConnectLate(s, kind, items, t) ==
    CASE kind = "read_timeout" -> ReqIter([s EXCEPT !.readRetry = @ + 1], items)
      [] kind = "connect" ->
            LET s1 == [s EXCEPT !.connRetry = @ + 1]
            IN  IF s1.connRetry > MaxTries THEN AExit(s1, "error")
                ELSE ReqIter(s1, items)
      [] kind = "unknown" ->
            LET s1 == [s EXCEPT !.unknownRetry = @ + 1]
            IN  IF s1.unknownRetry >= MaxTries
                THEN CloseCtx(s1, t + 60 * UnknownLockMinutes, FALSE, "loop")
                ELSE ReqIter(s1, items)

\* the except branches as they would be if the account were given back
\* unlocked after the third unknown exception
OnErrorUnknownUnlocks(s, kind, items, t) ==
    CASE kind = "read_timeout" -> ReqIter([s EXCEPT !.readRetry = @ + 1], items)
      [] kind = "connect" ->
            LET s1 == [s EXCEPT !.connRetry = @ + 1]
            IN  IF s1.connRetry >= MaxTries THEN AExit(s1, "error")
                ELSE ReqIter(s1, items)
      [] kind = "unknown" ->
            LET s1 == [s EXCEPT !.unknownRetry = @ + 1]
            IN  IF s1.unknownRetry >= MaxTries
                THEN CloseCtx(s1, -1, FALSE, "loop")
                ELSE ReqIter(s1, items)

\* The except branches of req for an exception raised by the request
OnError(s, kind, items, t) ==
    CASE kind = "read_timeout" -> ReqIter([s EXCEPT !.readRetry = @ + 1], items)
      [] kind = "connect" ->
            LET s1 == [s EXCEPT !.connRetry = @ + 1]
            IN  IF s1.connRetry >= MaxTries THEN AExit(s1, "error")
                ELSE ReqIter(s1, items)
      [] kind = "unknown" ->
            LET s1 == [s EXCEPT !.unknownRetry = @ + 1]
            IN  IF s1.unknownRetry >= MaxTries
                THEN CloseCtx(s1, t + 60 * UnknownLockMinutes, FALSE, "loop")
                ELSE ReqIter(s1, items)

\* clt.request raised
HttpError(c, kind) ==
    /\ cl[c].pc = "http"
    /\ cl' = [cl EXCEPT ![c] = OnError(cl[c], kind, xclItems, now)]
    /\ Spend(1)
    /\ UNCHANGED <<now, poolVars, repVars, xclItems, raiseWhenNoAccount, remote, calls>>

\* _close_ctx: `await ctx.aclose()` finished
CloseAclose(c) ==
    /\ cl[c].pc = "close_aclose"
    /\ cl' = [cl EXCEPT ![c].pc = "close_pool"]
    /\ UNCHANGED <<now, poolVars, repVars, xclItems, envVars>>

\* the locals of _close_ctx and the released Ctx are gone
Released(s) ==
    [s EXCEPT !.closeAcc = None, !.closeMode = "", !.closeResetAt = -1,
              !.closeThen = "", !.ctxReqCount = 0]

\* _close_ctx: the pool call (mark_inactive, lock_until or unlock) is made
\* and returns
ClosePool(c) ==
    LET s == cl[c]
    IN  /\ s.pc = "close_pool"
        /\ CASE s.closeMode = "inactive" -> PoolMarkInactive(s.closeAcc)
             [] s.closeMode = "lock" ->
                    PoolLockUntil(s.closeAcc, s.queue, s.closeResetAt, s.ctxReqCount)
             [] s.closeMode = "unlock" -> PoolUnlock(s.closeAcc, s.queue, s.ctxReqCount)
        /\ cl' = [cl EXCEPT ![c] = AfterClose(Released(s), s.closeThen)]
        /\ UNCHANGED <<now, repVars, xclItems, envVars>>

\* the consumer asks the generator for the next page
Resume(c) ==
    /\ cl[c].pc = "yield"
    /\ cl' = [cl EXCEPT ![c] = OnResume(cl[c], xclItems)]
    /\ UNCHANGED <<now, poolVars, repVars, xclItems, envVars>>

\* the consumer closes the generator (aclosing): GeneratorExit at the yield
ConsumerClose(c) ==
    /\ cl[c].pc = "yield"
    /\ cl' = [cl EXCEPT ![c] = AExit(cl[c], "closed")]
    /\ UNCHANGED <<now, poolVars, repVars, xclItems, envVars>>

\* CancelledError thrown at the await the task is suspended in.  In
\* __aenter__ it leaves before the `async with` body, so __aexit__ does not
\* run; in _close_ctx self.ctx is None already, so __aexit__ releases nothing;
\* elsewhere __aexit__ closes the held Ctx.
OnCancel(s) ==
    IF s.pc \in {"aenter_wait", "close_aclose", "close_pool"}
    THEN [Released(s) EXCEPT !.pc = "done", !.outcome = "cancelled"]
    ELSE AExit(s, "cancelled")

Cancel(c) ==
    /\ cl[c].pc \in {"aenter_wait", "req_wait", "xclid", "http", "close_aclose", "close_pool"}
    /\ cl' = [cl EXCEPT ![c] = OnCancel(cl[c])]
    /\ UNCHANGED <<now, poolVars, repVars, xclItems, envVars>>

\* time passes, up to the next moment a lock expires
Tick ==
    /\ \E a \in Accounts, q \in Queues :
          /\ unlockAt[a][q] > now
          /\ now' = unlockAt[a][q]
    /\ UNCHANGED <<poolVars, repVars, xclItems, envVars, cl>>

\* ----------------------------------------------------------- environments
\* The rate-limit headers of a response: absent, or a remaining count with
\* the window's reset time
Hdr(rem) == IF rem >= 0 THEN now + ResetAhead ELSE -1

\* a 200 response: the timeline page when it has no errors
R200(rem, es) == Rep(200, rem, Hdr(rem), es, FALSE, es = <<>>)
\* a 200 response with errors beside a partial page
RPartial(es) == Rep(200, -1, -1, es, FALSE, TRUE)
R404 == Rep(404, -1, -1, <<>>, FALSE, FALSE)
\* a rate-limited response whose x-rate-limit-reset names a window that
\* ended long ago
RStale == Rep(200, 0, 1, <<>>, FALSE, FALSE)

ErrorKinds == {"read_timeout", "connect", "unknown"}
Modes == {"pages", "with_cursor"}
Limits == {-1} \cup (1..MaxLimit)

\* a page carries no real entry or one, and a cursor or none
Remotes == [1..NPages -> [n : {0, 1}, more : BOOLEAN]]
\* a timeline of full pages, the last one without a cursor
PlainRemote == [i \in 1..NPages |-> [n |-> 1, more |-> i < NPages]]

InitPool(actives, raises, nFaults, meter, nCalls) ==
    /\ now = 0
    /\ active \in actives
    /\ unlockAt = [a \in Accounts |-> [q \in Queues |-> 0]]
    /\ reqCount = [a \in Accounts |-> [q \in Queues |-> 0]]
    /\ borrowedBy = [a \in Accounts |-> [q \in Queues |-> None]]
    /\ raiseWhenNoAccount \in raises
    /\ softErr = EmptyDict
    /\ banStrikes = EmptyDict
    /\ xclItems = {}
    /\ cl = [c \in Clients |-> InitClient]
    /\ budget = nFaults
    /\ metered = meter
    /\ calls = nCalls

AllActive == [a \in Accounts |-> TRUE]
OnlyA1 == [a \in Accounts |-> a = "a1"]

\* ---- SpecLife: one call of one client, every way of leaving the client
LifeResponses ==
    {R200(-1, <<>>), R200(0, <<>>), R200(1, <<"E88">>), R200(-1, <<"E29">>),
     R200(-1, <<"E326">>), R200(-1, <<"E131">>), R200(-1, <<"E336">>), R404}
InitLife == InitPool({AllActive}, BOOLEAN, MaxFaultsLife, FALSE, 1) /\ remote = PlainRemote
NextLife ==
    \/ Start("c1", "q1", "pages", -1, 0)
    \/ \E a \in Accounts : Acquire("c1", a)
    \/ AcquireNone("c1")
    \/ \E ok \in BOOLEAN : XclCreate("c1", ok)
    \/ \E r \in LifeResponses : HttpResponse("c1", r)
    \/ \E k \in ErrorKinds : HttpError("c1", k)
    \/ CloseAclose("c1")
    \/ ClosePool("c1")
    \/ Resume("c1")
    \/ ConsumerClose("c1")
    \/ Cancel("c1")
    \/ Tick
SpecLife == InitLife /\ [][NextLife]_vars

\* ---- SpecLock: two clients on one pool, responses that lock the account
LockResponses ==
    {R200(-1, <<>>), R200(0, <<>>), R200(1, <<"E88">>), R200(-1, <<"E29">>), RStale}
InitLock ==
    InitPool({AllActive, OnlyA1}, {FALSE}, MaxResponsesLock, TRUE, 2) /\ remote = PlainRemote
NextLock ==
    \/ \E q \in Queues : Start("c1", q, "pages", -1, 0)
    \/ Start("c2", "q1", "pages", -1, 0)
    \/ \E c \in Clients, a \in Accounts : Acquire(c, a)
    \/ \E c \in Clients : XclCreate(c, TRUE)
    \/ \E c \in Clients : \E r \in LockResponses : HttpResponse(c, r)
    \/ \E c \in Clients : CloseAclose(c)
    \/ \E c \in Clients : ClosePool(c)
    \/ \E c \in Clients : Resume(c)
    \/ \E c \in Clients : ConsumerClose(c)
    \/ \E c \in Clients : Cancel(c)
    \/ Tick
SpecLock == InitLock /\ [][NextLock]_vars

\* ---- SpecRep: one client calling again and again, responses that move the
\* reputation counters
RepResponses ==
    {R200(-1, <<>>), R200(1, <<"E88">>), RPartial(<<"ESoft">>),
     R200(-1, <<"E29">>), R200(0, <<"E29">>)}
InitRep ==
    InitPool({AllActive, OnlyA1}, {FALSE}, MaxResponsesRep, TRUE, MaxCallsRep) /\ remote = PlainRemote
NextRep ==
    \/ Start("c1", "q1", "pages", -1, 0)
    \/ \E a \in Accounts : Acquire("c1", a)
    \/ XclCreate("c1", TRUE)
    \/ \E r \in RepResponses : HttpResponse("c1", r)
    \/ CloseAclose("c1")
    \/ ClosePool("c1")
    \/ Resume("c1")
    \/ Tick
SpecRep == InitRep /\ [][NextRep]_vars

\* ---- SpecStream: a stream over any timeline, then a second stream started
\* from a saved cursor once the first is over
StreamResponses == {R200(-1, <<>>), R200(-1, <<"E131">>)}
\* the cursors the consumer of client c was handed with its pages
SavedCursors(c) ==
    {cl[c].yielded[i][2] : i \in 1..Len(cl[c].yielded)} \ {-1, 0}
InitStream ==
    InitPool({AllActive}, {FALSE}, MaxFaultsStream, FALSE, 2) /\ remote \in Remotes
NextStream ==
    \/ \E m \in Modes, lim \in Limits : Start("c1", "q1", m, lim, 0)
    \/ \E lim \in Limits, k \in SavedCursors("c1") :
          cl["c1"].pc = "done" /\ Start("c2", "q1", "with_cursor", lim, k)
    \/ \E c \in Clients, a \in Accounts : Acquire(c, a)
    \/ \E c \in Clients : XclCreate(c, TRUE)
    \/ \E c \in Clients : \E r \in StreamResponses : HttpResponse(c, r)
    \/ \E c \in Clients : CloseAclose(c)
    \/ \E c \in Clients : ClosePool(c)
    \/ \E c \in Clients : Resume(c)
    \/ \E c \in Clients : ConsumerClose(c)
SpecStream == InitStream /\ [][NextStream]_vars

\* ---- SpecPair: the pages-only driver runs over a timeline, then the
\* with-cursor driver is called with the same limit and the same kv
PairCursors == {0, 1}
InitPair ==
    InitPool({AllActive}, {FALSE}, MaxFaultsStream, FALSE, 2) /\ remote \in Remotes
NextPair ==
    \/ \E lim \in Limits, k \in PairCursors : Start("c1", "q1", "pages", lim, k)
    \/ /\ cl["c1"].pc = "done" /\ cl["c1"].mode = "pages"
       /\ Start("c2", "q1", "with_cursor", cl["c1"].limit, cl["c1"].startCursor)
    \/ \E c \in Clients, a \in Accounts : Acquire(c, a)
    \/ \E c \in Clients : XclCreate(c, TRUE)
    \/ \E c \in Clients : \E r \in StreamResponses : HttpResponse(c, r)
    \/ \E c \in Clients : CloseAclose(c)
    \/ \E c \in Clients : ClosePool(c)
    \/ \E c \in Clients : Resume(c)
    \/ \E c \in Clients : ConsumerClose(c)
SpecPair == InitPair /\ [][NextPair]_vars

\* ---- SpecShare: two clients, each on its own queue, served by the same
\* account; every response moves one of the reputation counters
ShareResponses == {R200(1, <<"E88">>), RPartial(<<"ESoft">>)}
InitShare ==
    InitPool({OnlyA1}, {FALSE}, MaxResponsesShare, TRUE, 3) /\ remote = PlainRemote
NextShare ==
    \/ Start("c1", "q1", "pages", -1, 0)
    \/ Start("c2", "q2", "pages", -1, 0)
    \/ \E c \in Clients, a \in Accounts : Acquire(c, a)
    \/ \E c \in Clients : XclCreate(c, TRUE)
    \/ \E c \in Clients : \E r \in ShareResponses : HttpResponse(c, r)
    \/ \E c \in Clients : CloseAclose(c)
    \/ \E c \in Clients : ClosePool(c)
    \/ \E c \in Clients : Resume(c)
    \/ Tick
SpecShare == InitShare /\ [][NextShare]_vars

\* ---- SpecClass: one client, every kind of response the classifier tells
\* apart
ClassErrs ==
    {<<>>, <<"E336">>, <<"E88">>, <<"E326">>, <<"E32">>, <<"E131">>, <<"ENoStatus">>,
     <<"EAuth">>, <<"E29">>, <<"ESoft">>, <<"ESoft", "E29">>, <<"ESoft", "ENoStatus">>,
     <<"ESoft", "E326">>, <<"E326", "ESoft">>}
\* a response with status st, x-rate-limit-remaining rem, body errors es and,
\* when du, a data.user subtree
ClassRep(st, rem, es, du) == Rep(st, rem, Hdr(rem), es, du, st = 200 /\ (es = <<>> \/ du))
ClassResponses ==
    {ClassRep(st, rem, es, FALSE) : st \in {200, 403, 500}, rem \in {-1, 0, 1}, es \in ClassErrs}
    \cup {ClassRep(st, rem, <<"E131">>, TRUE) : st \in {200, 500}, rem \in {-1, 0}}
InitClass ==
    InitPool({AllActive}, {FALSE}, MaxResponsesClass, TRUE, 2) /\ remote = PlainRemote
NextClass ==
    \/ Start("c1", "q1", "pages", -1, 0)
    \/ \E a \in Accounts : Acquire("c1", a)
    \/ XclCreate("c1", TRUE)
    \/ \E r \in ClassResponses : HttpResponse("c1", r)
    \/ CloseAclose("c1")
    \/ ClosePool("c1")
    \/ Resume("c1")
    \/ Tick
SpecClass == InitClass /\ [][NextClass]_vars

\* ---- SpecInactive: two clients, each with one stream on its own queue,
\* and responses that cost the account its active flag
InactiveResponses == {R200(-1, <<>>), R200(-1, <<"E326">>)}
InitInactive ==
    InitPool({AllActive, OnlyA1}, {FALSE}, MaxResponsesInactive, TRUE, 2)
    /\ remote = PlainRemote
NextInactive ==
    \/ cl["c1"].pc = "idle" /\ Start("c1", "q1", "pages", -1, 0)
    \/ cl["c2"].pc = "idle" /\ Start("c2", "q2", "pages", -1, 0)
    \/ \E c \in Clients, a \in Accounts : Acquire(c, a)
    \/ \E c \in Clients : XclCreate(c, TRUE)
    \/ \E c \in Clients : \E r \in InactiveResponses : HttpResponse(c, r)
    \/ \E c \in Clients : CloseAclose(c)
    \/ \E c \in Clients : ClosePool(c)
    \/ \E c \in Clients : Resume(c)
    \/ \E c \in Clients : ConsumerClose(c)
SpecInactive == InitInactive /\ [][NextInactive]_vars

\* ---- SpecUnknown: one stream over a transport that raises exceptions req
\* has no branch for
InitUnknown ==
    InitPool({AllActive}, {FALSE}, MaxFaultsUnknown, FALSE, 1) /\ remote = PlainRemote
NextUnknown ==
    \/ Start("c1", "q1", "pages", -1, 0)
    \/ \E a \in Accounts : Acquire("c1", a)
    \/ XclCreate("c1", TRUE)
    \/ HttpResponse("c1", R200(-1, <<>>))
    \/ HttpError("c1", "unknown")
    \/ CloseAclose("c1")
    \/ ClosePool("c1")
    \/ Resume("c1")
    \/ ConsumerClose("c1")
    \/ Tick
SpecUnknown == InitUnknown /\ [][NextUnknown]_vars

\* ---- SpecRetry: one stream over any timeline, with a response that sends
\* the request to another account
RetryResponses == {R200(-1, <<>>), R200(0, <<>>), R200(-1, <<"E326">>)}
InitRetry ==
    InitPool({AllActive}, {FALSE}, MaxFaultsRetry, FALSE, 1) /\ remote \in Remotes
NextRetry ==
    \/ \E m \in Modes, lim \in Limits : Start("c1", "q1", m, lim, 0)
    \/ \E a \in Accounts : Acquire("c1", a)
    \/ XclCreate("c1", TRUE)
    \/ \E r \in RetryResponses : HttpResponse("c1", r)
    \/ CloseAclose("c1")
    \/ ClosePool("c1")
    \/ Resume("c1")
    \/ ConsumerClose("c1")
    \/ Tick
SpecRetry == InitRetry /\ [][NextRetry]_vars

\* ---- SpecLive: two streams on one queue and one active account, under a
\* fair scheduler: a task that can run does, the consumer of a page comes
\* back for the next or closes, time passes; the transport rate-limits a
\* bounded number of times and answers every other request with a clean 200.
\* A caller may cancel its task at any await.
LiveResponses == {R200(-1, <<>>), R200(0, <<>>)}
InitLive ==
    InitPool({OnlyA1}, {FALSE}, MaxFaultsLive, FALSE, 2) /\ remote = PlainRemote
NextLive ==
    \/ \E c \in Clients : cl[c].pc = "idle" /\ Start(c, "q1", "pages", -1, 0)
    \/ \E c \in Clients, a \in Accounts : Acquire(c, a)
    \/ \E c \in Clients : XclCreate(c, TRUE)
    \/ \E c \in Clients : \E r \in LiveResponses : HttpResponse(c, r)
    \/ \E c \in Clients : CloseAclose(c)
    \/ \E c \in Clients : ClosePool(c)
    \/ \E c \in Clients : Resume(c)
    \/ \E c \in Clients : ConsumerClose(c)
    \/ \E c \in Clients : Cancel(c)
    \/ Tick
FairLive ==
    /\ \A c \in Clients :
          /\ WF_vars(\E a \in Accounts : Acquire(c, a))
          /\ WF_vars(XclCreate(c, TRUE))
          /\ WF_vars(\E r \in LiveResponses : HttpResponse(c, r))
          /\ WF_vars(CloseAclose(c))
          /\ WF_vars(ClosePool(c))
          /\ WF_vars(Resume(c) \/ ConsumerClose(c))
    /\ WF_vars(Tick)
SpecLive == InitLive /\ [][NextLive]_vars /\ FairLive

\* --------------------------------------------------------------- properties
\* client c has left its `async with QueueClient` block
Left(c) == cl[c].pc = "done"

\* C1: by whatever path a client left the `async with QueueClient` block
\* (response, null, exception, cancellation at any await), self.ctx is None
\* and the pool holds no borrow of that client.
C1_ReleasedOnEveryExit ==
    \A c \in Clients : Left(c) =>
        /\ cl[c].ctx = None
        /\ \A a \in Accounts : borrowedBy[a][cl[c].queue] # c

\* C2: an account a client holds for its queue, and every account a request
\* is in flight with, has an unlock-at for that queue that is not in the
\* future: the pool never hands out a locked account, and no request goes out
\* with an account before the time the classifier locked it until.
C2_LockRespected ==
    \A c \in Clients :
        /\ cl[c].pc \in {"xclid", "http"} => cl[c].ctx # None
        /\ cl[c].ctx # None => unlockAt[cl[c].ctx][cl[c].queue] <= now

\* a request is in flight for a queue while another account is locked for it
C2_Witness ==
    \E c \in Clients, a \in Accounts :
        /\ cl[c].pc = "http"
        /\ cl[c].ctx # a
        /\ unlockAt[a][cl[c].queue] > now

\* the classifier released the account with a lock, and req retries
LockRules == {"hard", "ban", "soft_timeout"}
OneActive == Cardinality({a \in Accounts : active[a]}) = 1

\* C8 as stated: with one active account, once the classifier has locked it
\* and the pool has answered, the call has returned null (or was cancelled):
\* it neither waits nor issues another request.
C8_ReturnsNull ==
    \A c \in Clients :
        (OneActive /\ cl[c].rule \in LockRules
            /\ cl[c].pc \notin {"close_aclose", "close_pool", "req_wait"})
        => (Left(c) /\ cl[c].outcome \in {"null", "cancelled"})

\* C8, amended: with one active account, after the classifier has locked it
\* the call does not return null; it waits in the pool, and its next request
\* goes out with that same account once the lock has expired.
C8_WaitsForLock ==
    \A c \in Clients :
        (OneActive /\ cl[c].rule \in LockRules) =>
            /\ cl[c].outcome # "null"
            /\ cl[c].pc \in {"xclid", "http"} =>
                  /\ active[cl[c].ctx]
                  /\ unlockAt[cl[c].ctx][cl[c].queue] > 0
                  /\ unlockAt[cl[c].ctx][cl[c].queue] <= now

\* the only active account was locked, time passed, and the same call has
\* its next request in flight
C8_Witness ==
    \E c \in Clients :
        OneActive /\ cl[c].rule \in LockRules /\ cl[c].pc = "http" /\ now > 0

\* ---- steps of the classifier
\* client c's request is answered and classified in this step
Classified(c) == cl[c].pc = "http" /\ cl'[c].rep # NoRep

\* a code-88 response with x-rate-limit-remaining > 0
Ban88(r) == StartsWith(r, "E88") /\ r.remaining > 0

\* none of the classifier's rules before the soft-error policy matches
NoEarlierRule(r) ==
    /\ ~StartsWith(r, "E336")
    /\ ~(r.remaining = 0 /\ r.reset > 0)
    /\ ~Ban88(r)
    /\ ~StartsWith(r, "E326")
    /\ ~StartsWith(r, "E32")
    /\ ~(r.errs = <<>> /\ r.status = 403)
    /\ ~StartsWith(r, "E131")
    /\ ~(r.status = 200 /\ (Contains(r, "ENoStatus") \/ ContainsAuthorization(r)))

\* a soft error that is not a Timeout
SoftRep(r) == r.errs # <<>> /\ NoEarlierRule(r) /\ ~Contains(r, "E29")

\* a response of the OK path
OkRep(r) ==
    /\ ~StartsWith(r, "E336")
    /\ ~(r.remaining = 0 /\ r.reset > 0)
    /\ \/ r.errs = <<>> /\ r.status # 403
       \/ StartsWith(r, "E131") /\ r.status = 200 /\ r.dataUser

BanSchedule == <<60, 120, 240, 480, 540>>
RECURSIVE SumSchedule(_)
SumSchedule(k) == IF k = 0 THEN 0 ELSE SumSchedule(k - 1) + BanSchedule[k]

ReturnedHolding(c, a) ==
    /\ cl'[c].ctxReqCount = cl[c].ctxReqCount + 1
    /\ \/ cl'[c].ctx = a /\ cl'[c].pc = "yield"
       \/ /\ cl'[c].closeAcc = a
          /\ cl'[c].closeMode = "unlock"
          /\ cl'[c].closeThen = "exit"

\* C5: a non-timeout soft error raises the account's count from s to s + 1
\* while s < 4 and the response is returned with the account held (four
\* times from an empty count); with s = 4 the account is released with a
\* 3-minute lock, retry-other-account is signalled and the count is 0 again,
\* so the next soft error counts as the first.
C5_SoftErrors ==
    [][\A c \in Clients : (Classified(c) /\ SoftRep(cl'[c].rep)) =>
          LET a == cl[c].ctx
              s == DictGet(softErr, a)
          IN  /\ s <= 4
              /\ (s < 4) => /\ softErr' = DictPut(softErr, a, s + 1)
                            /\ ReturnedHolding(c, a)
              /\ (s = 4) => /\ softErr' = DictPut(softErr, a, 0)
                            /\ cl'[c].ctx = None
                            /\ cl'[c].closeAcc = a
                            /\ cl'[c].closeMode = "lock"
                            /\ cl'[c].closeResetAt = now + 60 * 3
                            /\ cl'[c].closeThen = "retry"
      ]_vars

\* the fifth soft error was just classified
C5_Witness ==
    \E c \in Clients :
        /\ cl[c].pc = "close_aclose"
        /\ cl[c].rule = "soft_lock"
        /\ cl[c].closeAcc \in DOMAIN softErr
        /\ softErr[cl[c].closeAcc] = 0

\* the Timeout outcome: a 2-minute lock, retry-other-account, both counters
\* as they were
TimeoutOutcome(c) ==
    /\ cl'[c].ctx = None
    /\ cl'[c].closeAcc = cl[c].ctx
    /\ cl'[c].closeMode = "lock"
    /\ cl'[c].closeResetAt = now + 60 * 2
    /\ cl'[c].closeThen = "retry"
    /\ softErr' = softErr
    /\ banStrikes' = banStrikes

\* C6 as stated: every response whose error message contains "(29) Timeout"
\* has the Timeout outcome.
C6_Timeout ==
    [][\A c \in Clients : (Classified(c) /\ Contains(cl'[c].rep, "E29")) => TimeoutOutcome(c)]_vars

\* C6, amended: a response whose error message contains "(29) Timeout" and
\* that no earlier rule of the classifier matches (hard rate limit first of
\* all) has the Timeout outcome, whatever the soft-error count.
C6_TimeoutUnlessEarlierRule ==
    [][\A c \in Clients :
          (Classified(c) /\ Contains(cl'[c].rep, "E29") /\ NoEarlierRule(cl'[c].rep))
          => TimeoutOutcome(c)]_vars

\* a Timeout was just classified for an account whose soft-error count is not 0
C6_Witness ==
    \E c \in Clients :
        /\ cl[c].pc = "close_aclose"
        /\ cl[c].rule = "soft_timeout"
        /\ DictGet(softErr, cl[c].closeAcc) > 0

\* the entries of every account but a are the same in m and n
SameButFor(m, n, a) ==
    \A b \in Accounts \ {a} :
        /\ b \in DOMAIN m <=> b \in DOMAIN n
        /\ DictGet(m, b) = DictGet(n, b)

\* C7: an OK-path response leaves neither a soft-error entry nor a ban-strike
\* entry for the account that served it; when there was none it leaves both
\* maps as they were; the entries of the other accounts are untouched.
C7_OkPathClears ==
    [][\A c \in Clients : (Classified(c) /\ OkRep(cl'[c].rep)) =>
          LET a == cl[c].ctx
          IN  /\ a \notin DOMAIN softErr'
              /\ a \notin DOMAIN banStrikes'
              /\ SameButFor(softErr, softErr', a)
              /\ SameButFor(banStrikes, banStrikes', a)
              /\ (a \notin DOMAIN softErr /\ a \notin DOMAIN banStrikes)
                    => (softErr' = softErr /\ banStrikes' = banStrikes)
      ]_vars

\* an OK-path response was served by an account while the other account has
\* entries in both maps
C7_Witness ==
    \E c \in Clients, b \in Accounts :
        /\ cl[c].pc = "yield"
        /\ cl[c].rule = "ok"
        /\ cl[c].ctx # b
        /\ b \in DOMAIN softErr
        /\ b \in DOMAIN banStrikes
        /\ cl[c].ctx \notin DOMAIN softErr \cup DOMAIN banStrikes

\* ---- streams
\* the stream of client c ended by itself
Finished(c) == Left(c) /\ cl[c].outcome \in {"end", "empty"}

\* the pages a stream yielded, by their position in the remote timeline
PagesOf(c) == [i \in 1..Len(cl[c].yielded) |-> cl[c].yielded[i][1]]

\* the first page from i on that comes without a cursor (NPages + 1: the
\* empty page after the timeline)
RECURSIVE FirstNull(_, _)
FirstNull(rem, i) == IF i > NPages \/ ~rem[i].more THEN i ELSE FirstNull(rem, i + 1)

\* C9 as stated: a stream without limit that ended by itself yielded the
\* pages 1..n in order and issued n requests, n being the first page without
\* a cursor.
C9_YieldsNPages ==
    \A c \in Clients :
        (Finished(c) /\ cl[c].limit = -1 /\ cl[c].startCursor = 0) =>
            LET n == FirstNull(remote, 1)
            IN  /\ PagesOf(c) = [i \in 1..n |-> i]
                /\ cl[c].reqs = [i \in 1..n |-> i - 1]

\* C9, amended: the same when every page up to the nth has a real entry.
C9_YieldsNonEmptyPages ==
    \A c \in Clients :
        LET n == FirstNull(remote, 1)
        IN  (/\ Finished(c) /\ cl[c].limit = -1 /\ cl[c].startCursor = 0
             /\ \A i \in 1..n : PageAt(remote, i - 1).n > 0)
            => /\ PagesOf(c) = [i \in 1..n |-> i]
               /\ cl[c].reqs = [i \in 1..n |-> i - 1]

\* a stream without limit ended after yielding every page of the timeline
C9_Witness ==
    \E c \in Clients :
        /\ Finished(c) /\ cl[c].limit = -1 /\ cl[c].startCursor = 0
        /\ Len(cl[c].yielded) = NPages

\* c1 ran to its end in the with-cursor mode, and c2 was started from the
\* cursor c1 yielded with page k and ran to its end
Resumed(k) ==
    /\ Finished("c1") /\ Finished("c2")
    /\ cl["c1"].mode = "with_cursor" /\ cl["c1"].startCursor = 0
    /\ k \in 1..Len(cl["c1"].yielded)
    /\ cl["c1"].yielded[k] = <<k, k>>
    /\ cl["c2"].mode = "with_cursor" /\ cl["c2"].startCursor = k

\* C10 as stated: the resumed stream's first request carries the saved
\* cursor, and the first k pages of the uninterrupted run followed by the
\* resumed stream's pages are the uninterrupted run (both with the same limit).
C10_ResumeEqualsRun ==
    \A k \in 1..NPages :
        (Resumed(k) /\ cl["c2"].limit = cl["c1"].limit) =>
            /\ cl["c2"].reqs[1] = k
            /\ cl["c1"].yielded = SubSeq(cl["c1"].yielded, 1, k) \o cl["c2"].yielded

\* C10, amended: the resumed stream's first request carries the saved cursor
\* and it yields the pages k+1, k+2, ... without gap or repetition; when no
\* limit is set, the two halves together are the uninterrupted run.
C10_ResumeContinues ==
    \A k \in 1..NPages :
        Resumed(k) =>
            /\ cl["c2"].reqs[1] = k
            /\ PagesOf("c2") = [i \in 1..Len(cl["c2"].yielded) |-> k + i]
            /\ (cl["c1"].limit = -1 /\ cl["c2"].limit = -1) =>
                  cl["c1"].yielded = SubSeq(cl["c1"].yielded, 1, k) \o cl["c2"].yielded

\* a run was resumed from the cursor of its first page and yielded the rest
C10_Witness ==
    /\ Resumed(1)
    /\ cl["c1"].limit = -1 /\ cl["c2"].limit = -1
    /\ Len(cl["c1"].yielded) = NPages
    /\ Len(cl["c2"].yielded) = NPages - 1

\* ---- limit
\* the real entries of the first j pages client c yielded
RECURSIVE Cum(_, _)
Cum(c, j) == IF j = 0 THEN 0 ELSE Cum(c, j - 1) + remote[cl[c].yielded[j][1]].n

\* C11: in a stream with limit L > 0 no page is yielded after the one that
\* brought the real entries to L; that page is itself yielded, and from then
\* on no further request is issued (as many requests as pages) and the stream
\* is at its yield or ending, with or without a cursor on that page.
C11_LimitStops ==
    \A c \in Clients :
        LET s == cl[c]
            k == Len(s.yielded)
        IN  s.limit > 0 =>
              /\ \A j \in 1..(k - 1) : Cum(c, j) < s.limit
              /\ s.cnt >= s.limit => Cum(c, k) >= s.limit
              /\ Cum(c, k) >= s.limit =>
                    /\ Len(s.reqs) = k
                    /\ s.pc \in {"yield", "close_aclose", "close_pool", "done"}
                    /\ s.outcome \in {"", "end", "closed"}
                    /\ (s.pc # "yield" /\ s.outcome # "closed") => s.outcome = "end"

\* a stream with limit 2 over pages of one entry ended after exactly two
\* pages, the second of which carried a cursor
C11_Witness ==
    \E c \in Clients :
        /\ Finished(c) /\ cl[c].limit = MaxLimit /\ cl[c].startCursor = 0
        /\ Len(cl[c].yielded) = MaxLimit /\ Len(cl[c].reqs) = MaxLimit
        /\ remote[MaxLimit].more

\* ---- request counts
\* the responses the classifier accepted in the stream of client c: one per
\* page yielded, and the one without real entries the stream ended on
Accepted(c) == Len(cl[c].yielded) + (IF cl[c].outcome = "empty" THEN 1 ELSE 0)

\* account a alone has the persisted count n for queue q
CountedOn(a, q, n) ==
    /\ reqCount[a][q] = n
    /\ \A b \in Accounts \ {a} : reqCount[b][q] = 0

\* C12 as stated: after a stream that yielded one page, one account has a
\* persisted request count of 1 for the queue and the other of 0.
C12_OnePageOneRequest ==
    (Left("c1") /\ calls = 1 /\ Len(cl["c1"].yielded) = 1) =>
        \E a \in Accounts : CountedOn(a, cl["c1"].queue, 1)

\* C12, amended: the Ctx's counter is the number of responses accepted with
\* it; the client's exit releases by unlock carrying that number; after the
\* stream the serving account's persisted count is the number of accepted
\* responses (the pages yielded, and the final response without real entries
\* when there was one) and the other account's is 0.
C12_CountsAccepted ==
    \A c \in Clients :
        LET s == cl[c]
        IN  /\ s.pc \in {"xclid", "http", "yield"} => s.ctxReqCount = Len(s.yielded)
            /\ s.pc \in {"close_aclose", "close_pool"} =>
                  /\ s.closeMode = "unlock" /\ s.closeThen = "exit"
                  /\ s.ctxReqCount = Accepted(c)
            /\ (c = "c1" /\ Left(c) /\ calls = 1) =>
                  \E a \in Accounts : CountedOn(a, s.queue, Accepted(c))

\* a stream yielded one page, ended on a second response without entries,
\* and left a persisted count of 2
C12_Witness ==
    /\ Left("c1") /\ calls = 1
    /\ Len(cl["c1"].yielded) = 1 /\ cl["c1"].outcome = "empty"
    /\ \E a \in Accounts : CountedOn(a, "q1", 2)

\* ---- cancellation
\* C13: a client whose task was cancelled releases whatever it had borrowed
\* by unlock: while its release is under way it is an unlock of the account
\* it held, and once it has left the pool holds no borrow of it.
C13_CancelReleasesByUnlock ==
    \A c \in Clients :
        cl[c].outcome = "cancelled" =>
            /\ cl[c].pc \in {"close_aclose", "close_pool"} =>
                  cl[c].closeMode = "unlock" /\ borrowedBy[cl[c].closeAcc][cl[c].queue] = c
            /\ Left(c) => \A a \in Accounts : borrowedBy[a][cl[c].queue] # c

\* ---- what reaches the caller
\* the ways a call ends with a response or with None
Returned == {"end", "empty", "closed", "null"}

\* C14 as stated: a call that was not cancelled ends with a response, with
\* None, or with the connect error raised at the MaxTries-th connect failure;
\* nothing else reaches the caller.
C14_NothingElseEscapes ==
    \A c \in Clients :
        (cl[c].outcome # "" /\ cl[c].outcome # "cancelled") =>
            \/ cl[c].outcome \in Returned
            \/ cl[c].outcome = "error" /\ cl[c].connRetry >= MaxTries

\* C14, amended: the same, or the call is left by the SystemExit that
\* exit(1) raises when the classifier meets the feature-flag error (336).
C14_EscapesOnlyExit ==
    \A c \in Clients :
        (cl[c].outcome # "" /\ cl[c].outcome # "cancelled") =>
            \/ cl[c].outcome \in Returned
            \/ cl[c].outcome = "error" /\ cl[c].connRetry >= MaxTries
            \/ cl[c].outcome = "exit" /\ cl[c].rule = "flags336"

\* a call was left by SystemExit after a (336) response
C14_Witness ==
    \E c \in Clients : Left(c) /\ cl[c].outcome = "exit" /\ cl[c].rule = "flags336"

\* ---- transport errors
\* the request of client c raised a connect error in this step
ConnectFailed(c) == cl[c].pc = "http" /\ cl'[c].connRetry = cl[c].connRetry + 1

\* C15: a connect error before the MaxTries-th of the call keeps the Ctx:
\* the request is made again with the same account, and the pool, the
\* reputation counters and the Ctx's count are untouched; the MaxTries-th
\* leaves the call with the error, the account going back by unlock.
C15_ConnectRetries ==
    [][\A c \in Clients : ConnectFailed(c) =>
          IF cl'[c].connRetry < MaxTries
          THEN /\ cl'[c].ctx = cl[c].ctx /\ cl'[c].ctx # None
               /\ cl'[c].pc \in {"xclid", "http"}
               /\ cl'[c].outcome = ""
               /\ cl'[c].ctxReqCount = cl[c].ctxReqCount
               /\ UNCHANGED <<poolVars, repVars>>
          ELSE /\ cl'[c].connRetry = MaxTries
               /\ cl'[c].outcome = "error"
               /\ cl'[c].pc = "close_aclose"
               /\ cl'[c].closeAcc = cl[c].ctx /\ cl'[c].closeMode = "unlock"
               /\ UNCHANGED <<poolVars, repVars>>]_vars

\* the third connect error of a call has propagated and the account it was
\* made with is back in the pool
C15_Witness ==
    \E c \in Clients :
        /\ Left(c) /\ cl[c].outcome = "error" /\ cl[c].connRetry = MaxTries
        /\ \A a \in Accounts : borrowedBy[a][cl[c].queue] = None

\* C16: read timeouts are retried a bounded number of times: a call that
\* has met MaxTries of them sends no further request.
C16_TimeoutsBounded ==
    \A c \in Clients :
        cl[c].readRetry >= MaxTries => cl[c].pc \notin {"req_wait", "xclid", "http"}

\* the request of client c raised an unknown exception in this step
UnknownFailed(c) == cl[c].pc = "http" /\ cl'[c].unknownRetry = cl[c].unknownRetry + 1

\* C17: an unknown exception before the MaxTries-th of the call keeps the Ctx
\* and the request is made again with the same account; from the MaxTries-th
\* on the account is released by lock_until(now + 15 minutes), after which
\* the call waits for another account; the call does not end by it.
C17_UnknownRetries ==
    [][\A c \in Clients :
          /\ UnknownFailed(c) =>
                /\ cl'[c].outcome = ""
                /\ UNCHANGED <<poolVars, repVars>>
                /\ IF cl'[c].unknownRetry < MaxTries
                   THEN /\ cl'[c].ctx = cl[c].ctx /\ cl'[c].ctx # None
                        /\ cl'[c].pc \in {"xclid", "http"}
                   ELSE /\ cl'[c].ctx = None
                        /\ cl'[c].pc = "close_aclose"
                        /\ cl'[c].closeAcc = cl[c].ctx
                        /\ cl'[c].closeMode = "lock"
                        /\ cl'[c].closeResetAt = now + 60 * UnknownLockMinutes
                        /\ cl'[c].closeThen = "loop"
          /\ (/\ cl[c].pc = "close_pool" /\ cl[c].closeThen = "loop"
              /\ cl'[c].pc \notin {"close_pool", "done"}) =>
                /\ cl'[c].pc = "req_wait" /\ cl'[c].outcome = ""
                /\ unlockAt'[cl[c].closeAcc][cl[c].queue] = cl[c].closeResetAt
                /\ borrowedBy'[cl[c].closeAcc][cl[c].queue] = None]_vars

\* after the third unknown exception the account is locked for 15 minutes
\* and the call is waiting for another one
C17_Witness ==
    \E c \in Clients, a \in Accounts :
        /\ cl[c].pc = "req_wait" /\ cl[c].unknownRetry = MaxTries
        /\ unlockAt[a][cl[c].queue] = now + 60 * UnknownLockMinutes
        /\ borrowedBy[a][cl[c].queue] = None

\* ---- abort
AbortRules == {"abort404", "abort_xclid", "dep131"}

\* AbortReqError was raised in the call of client c in this step
Aborted(c) ==
    /\ cl[c].pc \in {"xclid", "http"}
    /\ cl'[c].rule \in AbortRules
    /\ cl'[c].pc \notin {"xclid", "http"}
    /\ cl'[c].outcome # "cancelled"

\* C18: when the abort signal is raised the call ends with None at once: no
\* other account is asked for, the reputation counters and the pool are as
\* they were, and what the client's exit starts is an unlock of the account
\* it held; when that release is made, the account is unlocked, not locked
\* and not inactive.
C18_AbortReturnsNull ==
    [][\A c \in Clients :
          /\ Aborted(c) =>
                /\ cl'[c].outcome = "null"
                /\ cl'[c].pc = "close_aclose"
                /\ cl'[c].closeAcc = cl[c].ctx /\ cl[c].ctx # None
                /\ cl'[c].closeMode = "unlock"
                /\ cl'[c].closeThen = "exit"
                /\ UNCHANGED <<poolVars, repVars>>
          /\ (/\ cl[c].pc = "close_pool" /\ cl[c].outcome = "null"
              /\ cl[c].rule \in AbortRules /\ cl'[c].outcome = "null" /\ Left(c)') =>
                /\ unlockAt'[cl[c].closeAcc][cl[c].queue] = now
                /\ borrowedBy'[cl[c].closeAcc][cl[c].queue] = None
                /\ UNCHANGED <<active, repVars>>]_vars

\* a call ended with None after the third 404 and its account is back,
\* unlocked and active
C18_Witness ==
    \E c \in Clients, a \in Accounts :
        /\ Left(c) /\ cl[c].outcome = "null" /\ cl[c].rule = "abort404"
        /\ cl[c].tries = MaxTries
        /\ active[a] /\ unlockAt[a][cl[c].queue] = now
        /\ \A b \in Accounts : borrowedBy[b][cl[c].queue] = None

\* ---- unlock-at
\* C19 as stated: no step lowers the unlock-at of any (account, queue).
C19_UnlockAtNeverDecreases ==
    [][\A a \in Accounts, q \in Queues : unlockAt'[a][q] >= unlockAt[a][q]]_vars

\* C19, amended: the only release that lowers an unlock-at is the lock_until
\* of a hard rate limit whose reset header lies in the past; unlock, the
\* penalty locks and a reset header that is not in the past never lower it.
C19_OnlyStaleResetLowers ==
    [][\A a \in Accounts, q \in Queues :
          unlockAt'[a][q] < unlockAt[a][q] =>
              \E c \in Clients :
                  /\ cl[c].pc = "close_pool" /\ cl'[c].pc # "close_pool"
                  /\ cl[c].closeAcc = a /\ cl[c].queue = q
                  /\ cl[c].closeMode = "lock" /\ cl[c].rule = "hard"
                  /\ cl[c].closeResetAt < now
                  /\ unlockAt'[a][q] = cl[c].closeResetAt]_vars

\* a penalty release has moved an account's unlock-at into the future and
\* the call is waiting for another account
C19_Witness ==
    \E c \in Clients, a \in Accounts :
        /\ cl[c].pc = "req_wait" /\ cl[c].rule \in LockRules
        /\ unlockAt[a][cl[c].queue] > now
        /\ borrowedBy[a][cl[c].queue] = None

\* ---- token generator
\* the clients awaiting XClIdGen.create() for account a
Creating(a) == {c \in Clients : cl[c].pc = "xclid" /\ cl[c].ctx = a}

\* C20: for one username at most one creation of a token generator is in
\* flight at any time.
C20_OneCreationInFlight ==
    \A a \in Accounts : Cardinality(Creating(a)) <= 1

\* ---- shared reputation maps
\* the responses the metered transport has delivered
Delivered == MaxResponsesShare - budget

\* C21: with two clients classifying responses served by the same account
\* at interleaved await points, every code-88 response adds exactly one to
\* the account's strike count and every soft error exactly one to its
\* soft-error count, leaving the other map alone, and no other step changes
\* either map; so below the thresholds (fewer than BanStrikeMax responses,
\* and not SoftErrorThreshold soft errors in a row) the two counts together
\* are the number of such responses delivered.
C21_NoLostUpdate ==
    /\ []((/\ Delivered < BanStrikeMax
            /\ (Delivered < SoftErrorThreshold \/ "a1" \in DOMAIN banStrikes)) =>
            DictGet(banStrikes, "a1") + DictGet(softErr, "a1") = Delivered)
    /\ [][/\ \A c \in Clients : (/\ Classified(c) /\ Ban88(cl'[c].rep)
                                    /\ DictGet(banStrikes, cl[c].ctx) < BanStrikeMax - 1) =>
                    /\ banStrikes' = DictPut(banStrikes, cl[c].ctx,
                                             DictGet(banStrikes, cl[c].ctx) + 1)
                    /\ softErr' = softErr
          /\ \A c \in Clients : (/\ Classified(c) /\ SoftRep(cl'[c].rep)
                                    /\ DictGet(softErr, cl[c].ctx) < SoftErrorThreshold - 1) =>
                    /\ softErr' = DictPut(softErr, cl[c].ctx,
                                          DictGet(softErr, cl[c].ctx) + 1)
                    /\ banStrikes' = banStrikes
          /\ (banStrikes' # banStrikes \/ softErr' # softErr) =>
                \E c \in Clients : Classified(c)]_vars

\* both clients are releasing the same account after a code-88 response
\* each, and its strike count is 2
C21_Witness ==
    /\ \A c \in Clients :
          /\ cl[c].pc \in {"close_aclose", "close_pool"}
          /\ cl[c].rule = "ban" /\ cl[c].closeAcc = "a1"
    /\ DictGet(banStrikes, "a1") = 2

\* ---- the classifier's rules
\* a response with x-rate-limit-remaining 0 and a positive x-rate-limit-reset
HardLimited(r) == r.remaining = 0 /\ r.reset > 0

\* the hard-rate-limit outcome: the account is being released by
\* lock_until(reset), retry-other-account, both counters as they were
HardOutcome(c) ==
    /\ cl'[c].ctx = None
    /\ cl'[c].closeAcc = cl[c].ctx /\ cl[c].ctx # None
    /\ cl'[c].closeMode = "lock"
    /\ cl'[c].closeResetAt = cl'[c].rep.reset
    /\ cl'[c].closeThen = "retry"
    /\ cl'[c].outcome = ""
    /\ UNCHANGED <<poolVars, repVars>>

\* the release of a hard rate limit is made: the pool gets the reset time
\* and the call goes on to ask for an account
HardReleased(c) ==
    (/\ cl[c].pc = "close_pool" /\ cl[c].rule = "hard"
     /\ cl'[c].pc \notin {"close_pool", "done"}) =>
        /\ unlockAt'[cl[c].closeAcc][cl[c].queue] = cl[c].closeResetAt
        /\ active' = active
        /\ cl'[c].pc = "req_wait"
        /\ UNCHANGED repVars

\* C22 as stated: every response with remaining = 0 and reset > 0 has the
\* hard-rate-limit outcome.
C22_HardLimitLocks ==
    [][\A c \in Clients :
          (Classified(c) /\ HardLimited(cl'[c].rep)) => HardOutcome(c)]_vars

\* C22, amended: every such response whose error does not begin with (336)
\* has the hard-rate-limit outcome, and the release then made sets the
\* account's unlock-at to the header's value.
C22_HardLimitLocksUnless336 ==
    [][\A c \in Clients :
          /\ (/\ Classified(c) /\ HardLimited(cl'[c].rep)
              /\ ~StartsWith(cl'[c].rep, "E336")) => HardOutcome(c)
          /\ HardReleased(c)]_vars

\* a rate-limited response came for an account with a strike and a soft
\* error on record, the account is locked until the reset time and the call
\* waits for another account
C22_Witness ==
    \E c \in Clients, a \in Accounts :
        /\ cl[c].pc = "req_wait" /\ cl[c].rule = "hard"
        /\ unlockAt[a][cl[c].queue] = now + ResetAhead
        /\ banStrikes # EmptyDict \/ softErr # EmptyDict

\* C23: the first matching rule wins.  A response whose error begins with
\* (336) ends the call by SystemExit whatever its rate-limit headers: no
\* lock, no inactive mark, no counter change, and the exit gives the account
\* back by unlock.  A response with remaining = 0 and reset > 0 whose error
\* begins with (88), (326) or (32) has the hard-rate-limit outcome: locked
\* until reset, no strike recorded, not marked inactive.
C23_FirstMatchWins ==
    [][\A c \in Clients :
          /\ (Classified(c) /\ StartsWith(cl'[c].rep, "E336")) =>
                /\ cl'[c].rule = "flags336"
                /\ cl'[c].outcome = "exit"
                /\ cl'[c].closeAcc = cl[c].ctx
                /\ cl'[c].closeMode = "unlock"
                /\ cl'[c].closeThen = "exit"
                /\ UNCHANGED <<poolVars, repVars>>
          /\ (/\ Classified(c) /\ HardLimited(cl'[c].rep)
              /\ \E e \in {"E88", "E326", "E32"} : StartsWith(cl'[c].rep, e)) =>
                /\ cl'[c].rule = "hard"
                /\ HardOutcome(c)
          /\ (cl[c].pc = "close_pool" /\ cl[c].rule \in {"hard", "flags336"}) =>
                active' = active]_vars

\* a rate-limited response carrying (326) was classified as a hard rate
\* limit: its account is locked until the reset time and still active
C23_Witness ==
    \E c \in Clients, a \in Accounts :
        /\ cl[c].pc = "req_wait" /\ cl[c].rule = "hard"
        /\ unlockAt[a][cl[c].queue] = now + ResetAhead
        /\ active[a] /\ banStrikes = EmptyDict
        /\ StartsWith(cl[c].rep, "E326")

\* a response naming an account-level failure: the error begins with (326)
\* or (32), or the status is 403 with no body errors
AccountFailure(r) ==
    \/ StartsWith(r, "E326")
    \/ StartsWith(r, "E32")
    \/ r.errs = <<>> /\ r.status = 403

\* the account-failure outcome: the account is being released by
\* mark_inactive, retry-other-account, both counters as they were
InactiveOutcome(c) ==
    /\ cl'[c].ctx = None
    /\ cl'[c].closeAcc = cl[c].ctx /\ cl[c].ctx # None
    /\ cl'[c].closeMode = "inactive"
    /\ cl'[c].closeThen = "retry"
    /\ cl'[c].outcome = ""
    /\ UNCHANGED <<poolVars, repVars>>

\* C24 as stated: every response naming an account-level failure has the
\* account-failure outcome.
C24_MarksInactive ==
    [][\A c \in Clients :
          (Classified(c) /\ AccountFailure(cl'[c].rep)) => InactiveOutcome(c)]_vars

\* C24, amended: every such response that is not rate limited (remaining = 0
\* and reset > 0) has the account-failure outcome; the release then made
\* marks the account inactive without touching its unlock-at or a counter,
\* and the account the call gets next is another, active one.
C24_MarksInactiveUnlessLimited ==
    [][\A c \in Clients :
          /\ (/\ Classified(c) /\ AccountFailure(cl'[c].rep)
              /\ ~HardLimited(cl'[c].rep)) => InactiveOutcome(c)
          /\ (/\ cl[c].pc = "close_pool" /\ cl[c].closeMode = "inactive"
              /\ cl'[c].pc \notin {"close_pool", "done"}) =>
                /\ ~active'[cl[c].closeAcc]
                /\ cl'[c].pc = "req_wait"
                /\ UNCHANGED <<unlockAt, reqCount, repVars>>
          /\ (cl[c].pc = "req_wait" /\ cl'[c].ctx # None) => active[cl'[c].ctx]]_vars

\* after a (32) response the account is inactive and the request is in
\* flight again with the other account
C24_Witness ==
    \E c \in Clients :
        /\ cl[c].rule = "auth32" /\ cl[c].pc = "http"
        /\ cl[c].ctx # None /\ active[cl[c].ctx]
        /\ \E a \in Accounts : ~active[a]

\* what a (131) response comes to: the OK path when its status is 200 and it
\* has a data.user subtree (both entries of the account removed, the
\* response returned with the account held), else the call ends with None,
\* both counters as they were
DependencyOutcome(c) ==
    LET a == cl[c].ctx
        r == cl'[c].rep
    IN  IF r.status = 200 /\ r.dataUser
        THEN /\ cl'[c].rule = "ok"
             /\ a \notin DOMAIN softErr' /\ a \notin DOMAIN banStrikes'
             /\ SameButFor(softErr, softErr', a) /\ SameButFor(banStrikes, banStrikes', a)
             /\ ReturnedHolding(c, a)
             /\ cl'[c].outcome # "null"
        ELSE /\ cl'[c].rule = "dep131"
             /\ cl'[c].outcome = "null"
             /\ cl'[c].closeAcc = a /\ cl'[c].closeMode = "unlock"
             /\ cl'[c].closeThen = "exit"
             /\ UNCHANGED repVars

\* C25 as stated: every response whose error begins with (131) is on the OK
\* path exactly when its status is 200 and it has data.user, and ends the
\* call with None otherwise.
C25_Dependency ==
    [][\A c \in Clients :
          (Classified(c) /\ StartsWith(cl'[c].rep, "E131")) => DependencyOutcome(c)]_vars

\* C25, amended: the same for every such response that is not rate limited.
C25_DependencyUnlessLimited ==
    [][\A c \in Clients :
          (/\ Classified(c) /\ StartsWith(cl'[c].rep, "E131")
           /\ ~HardLimited(cl'[c].rep)) => DependencyOutcome(c)]_vars

\* a (131) response with data.user was returned and yielded, and no counter
\* is on record for the account that served it
C25_Witness ==
    \E c \in Clients :
        /\ cl[c].pc = "yield" /\ cl[c].rule = "ok"
        /\ StartsWith(cl[c].rep, "E131") /\ cl[c].rep.dataUser
        /\ cl[c].ctx \notin DOMAIN softErr \cup DOMAIN banStrikes

\* a status-200 response whose error contains "No status found with that
\* ID" or "Authorization" and that none of the rules before these two takes
Ignored(r) ==
    /\ r.status = 200
    /\ Contains(r, "ENoStatus") \/ ContainsAuthorization(r)
    /\ ~StartsWith(r, "E336")
    /\ ~HardLimited(r)
    /\ ~Ban88(r)
    /\ ~StartsWith(r, "E326")
    /\ ~StartsWith(r, "E32")
    /\ ~StartsWith(r, "E131")

\* C26: such a response is returned as it came: req counts it and hands it
\* to the caller with the account still held; the pool and both reputation
\* maps are as they were.
C26_IgnoredErrors ==
    [][\A c \in Clients : (Classified(c) /\ Ignored(cl'[c].rep)) =>
          /\ cl'[c].rule \in {"no_status", "authorization"}
          /\ ReturnedHolding(c, cl[c].ctx)
          /\ cl'[c].outcome \in {"", "empty", "end"}
          /\ UNCHANGED <<poolVars, repVars>>]_vars

\* a "No status found" response was returned by an account that has a soft
\* error on record, and the record is still there
C26_Witness ==
    \E c \in Clients :
        /\ cl[c].rule = "no_status" /\ cl[c].pc = "close_aclose"
        /\ cl[c].outcome = "empty" /\ cl[c].closeMode = "unlock"
        /\ DictGet(softErr, cl[c].closeAcc) = 1

\* a response without body errors and with a failure status that no earlier
\* rule takes
HttpFailure(r) ==
    /\ r.errs = <<>> /\ r.status >= 400 /\ r.status # 403
    /\ ~HardLimited(r)

\* C27: such a response is not returned: the account is being released by
\* lock_until(now + 15 minutes) and retry-other-account is signalled; the
\* release then made sets the unlock-at and the call asks for an account.
C27_HttpFailureLocks ==
    [][\A c \in Clients :
          /\ (Classified(c) /\ HttpFailure(cl'[c].rep)) =>
                /\ cl'[c].rule = "ok_http_fail"
                /\ cl'[c].ctx = None
                /\ cl'[c].closeAcc = cl[c].ctx /\ cl[c].ctx # None
                /\ cl'[c].closeMode = "lock"
                /\ cl'[c].closeResetAt = now + 60 * UnknownLockMinutes
                /\ cl'[c].closeThen = "retry"
                /\ cl'[c].outcome = ""
                /\ cl'[c].ctxReqCount = cl[c].ctxReqCount
                /\ cl'[c].yielded = cl[c].yielded
                /\ UNCHANGED poolVars
          /\ (/\ cl[c].pc = "close_pool" /\ cl[c].rule = "ok_http_fail"
              /\ cl'[c].pc \notin {"close_pool", "done"}) =>
                /\ unlockAt'[cl[c].closeAcc][cl[c].queue] = cl[c].closeResetAt
                /\ active' = active
                /\ cl'[c].pc = "req_wait"]_vars

\* after a 500 without body errors the account is locked for 15 minutes and
\* the request is in flight again with the other account
C27_Witness ==
    \E c \in Clients, a \in Accounts :
        /\ cl[c].rule = "ok_http_fail" /\ cl[c].pc = "http"
        /\ cl[c].ctx # a
        /\ unlockAt[a][cl[c].queue] = now + 60 * UnknownLockMinutes

\* ---- 404
\* the request of client c was answered with HTTP 404 in this step
Got404(c) == cl[c].pc = "http" /\ cl'[c].tries = cl[c].tries + 1

\* a 404 is followed by the creation of a new token generator for the same
\* Ctx, whatever the cache holds, with nothing else changed
RetriesFresh(c) ==
    /\ cl'[c].pc = "xclid" /\ cl'[c].xcTries = 0
    /\ cl'[c].ctx = cl[c].ctx /\ cl'[c].ctx \in xclItems
    /\ cl'[c].outcome = "" /\ cl'[c].rule = cl[c].rule
    /\ UNCHANGED <<poolVars, repVars>>

\* C28 as stated: each of the first three 404s of a request is followed by
\* a retry with a fresh token (three retries after the initial attempt).
C28_ThreeRetries ==
    [][\A c \in Clients : (Got404(c) /\ cl'[c].tries <= MaxTries) => RetriesFresh(c)]_vars

\* C28, amended: the first and the second 404 of a request are followed by a
\* retry with a fresh token; the third raises the abort signal, so a request
\* is sent MaxTries times in all.  A response with another status goes to
\* the classifier without a retry.
C28_ThreeAttempts ==
    [][\A c \in Clients :
          /\ Got404(c) =>
                IF cl'[c].tries < MaxTries THEN RetriesFresh(c)
                ELSE /\ cl'[c].tries = MaxTries
                     /\ cl'[c].rule = "abort404"
                     /\ cl'[c].outcome = "null"
                     /\ UNCHANGED <<poolVars, repVars>>
          /\ (Classified(c) /\ cl'[c].rep.status # 404) =>
                /\ cl'[c].tries = cl[c].tries
                /\ cl'[c].rule # "abort404"]_vars

\* the third attempt of a request is in flight after two 404s
C28_Witness ==
    \E c \in Clients :
        /\ cl[c].pc = "http" /\ cl[c].tries = MaxTries - 1
        /\ cl[c].ctx \in xclItems

\* ---- pages without real entries
\* the classifier accepted a response for client c in this step and the page
\* it carries has no real entry
ZeroPage(c) ==
    /\ cl[c].pc = "http" /\ cl'[c].ctxReqCount = cl[c].ctxReqCount + 1
    /\ PageAt(remote, cl[c].kvCursor).n = 0

\* the stream of client c is being left, or was
Leaving(c) == cl[c].pc \in {"close_aclose", "close_pool", "done"}

\* C29: every page a stream yielded has a real entry; a page without one is
\* not yielded and ends the stream at once, with or without a cursor and
\* whatever the limit; after it the stream issues no request and yields
\* nothing (until a caller starts another stream).
C29_EmptyPageEnds ==
    /\ [](\A c \in Clients :
            /\ \A i \in 1..Len(cl[c].yielded) :
                  PageAt(remote, cl[c].yielded[i][1] - 1).n > 0
            /\ cl[c].outcome = "empty" =>
                  /\ Leaving(c)
                  /\ Len(cl[c].reqs) = Len(cl[c].yielded) + 1
                  /\ PageAt(remote, cl[c].reqs[Len(cl[c].reqs)]).n = 0)
    /\ [][\A c \in Clients :
            /\ ZeroPage(c) =>
                  /\ cl'[c].yielded = cl[c].yielded
                  /\ cl'[c].outcome = "empty"
                  /\ cl'[c].pc = "close_aclose"
            /\ (cl[c].outcome = "empty" /\ calls' = calls) =>
                  /\ cl'[c].reqs = cl[c].reqs
                  /\ cl'[c].yielded = cl[c].yielded
                  /\ cl'[c].outcome = "empty"]_vars

\* a stream with limit 2 ended after one page on a second page that had no
\* real entry but carried a cursor
C29_Witness ==
    \E c \in Clients :
        /\ Left(c) /\ cl[c].outcome = "empty"
        /\ cl[c].limit = MaxLimit /\ cl[c].cnt < cl[c].limit
        /\ Len(cl[c].yielded) = 1
        /\ PageAt(remote, cl[c].reqs[Len(cl[c].reqs)]).more

\* ---- the two drivers
IsPrefix(a, b) == Len(a) <= Len(b) /\ SubSeq(b, 1, Len(a)) = a

\* c1 is a call of the pages-only driver and c2 one of the with-cursor
\* driver with the same limit and the same kv
Paired ==
    /\ cl["c1"].mode = "pages" /\ cl["c2"].mode = "with_cursor"
    /\ cl["c1"].pc # "idle" /\ cl["c2"].pc # "idle"
    /\ cl["c1"].limit = cl["c2"].limit
    /\ cl["c1"].startCursor = cl["c2"].startCursor

\* C30: over the same timeline the two drivers issue the same requests and
\* yield the same pages as far as each has come; when both ended by
\* themselves, the cursors requested are the same sequence, the pages the
\* pages-only driver yielded are the first components of the with-cursor
\* driver's items, and both ended the same way.
C30_DriversAgree ==
    Paired =>
        /\ IsPrefix(cl["c1"].reqs, cl["c2"].reqs) \/ IsPrefix(cl["c2"].reqs, cl["c1"].reqs)
        /\ IsPrefix(PagesOf("c1"), PagesOf("c2")) \/ IsPrefix(PagesOf("c2"), PagesOf("c1"))
        /\ \A i \in 1..Len(cl["c1"].yielded) : cl["c1"].yielded[i][2] = -1
        /\ (Finished("c1") /\ Finished("c2")) =>
              /\ cl["c1"].reqs = cl["c2"].reqs
              /\ PagesOf("c1") = PagesOf("c2")
              /\ cl["c1"].outcome = cl["c2"].outcome
              /\ cl["c1"].cnt = cl["c2"].cnt

\* both drivers ran without limit through a whole timeline, each with one
\* request per page
C30_Witness ==
    /\ Paired /\ Finished("c1") /\ Finished("c2")
    /\ cl["c1"].limit = -1 /\ cl["c1"].startCursor = 0
    /\ Len(cl["c1"].yielded) = NPages /\ Len(cl["c2"].yielded) = NPages
    /\ cl["c2"].reqs = [i \in 1..NPages |-> i - 1]

\* ---- inactive accounts
\* client c sends a request in this step
Issues(c) == cl'[c] # cl[c] /\ cl'[c].pc = "http"

\* C31: a request is sent only with an account that is active; once an
\* account was marked inactive no client sends a request with it, the
\* clients that hold it for another queue included.
C31_NoRequestOnInactive ==
    [][\A c \in Clients : Issues(c) => active'[cl'[c].ctx]]_vars

\* ---- persisted counts
\* the persisted request count of queue q, all accounts together
PersistedOn(q) == reqCount["a1"][q] + reqCount["a2"][q]

\* C32: when a stream is over, the persisted count of its queue is the
\* number of responses req returned in it, whichever way its accounts were
\* released.
C32_CountsCarried ==
    \A c \in Clients : Left(c) => PersistedOn(cl[c].queue) = Accepted(c)

\* ---- unknown exceptions, account by account
\* the unknown-exception branch of req locks the account of client c in this
\* step
UnknownLocks(c) ==
    /\ cl[c].pc = "http" /\ cl'[c].pc = "close_aclose"
    /\ cl'[c].closeThen = "loop"

\* C33: the exception that gets an account locked is the third one counted
\* for it, and the count starts at 0 for an account borrowed inside req.
C33_OwnAttempts ==
    [][\A c \in Clients :
          /\ UnknownLocks(c) => cl[c].unknownRetry = MaxTries - 1
          /\ (cl[c].pc = "req_wait" /\ cl'[c].ctx # None) =>
                cl'[c].unknownRetry = 0]_vars

\* ---- what req returns
\* req returned the response to its caller in this step: it was counted as
\* a success of the Ctx
ReqReturns(c) == Classified(c) /\ cl'[c].ctxReqCount = cl[c].ctxReqCount + 1

\* C34: every response req returns has a status below 400.
C34_ReturnsOnlySuccess ==
    [][\A c \in Clients : ReqReturns(c) => cl'[c].rep.status < 400]_vars

\* ---- counters and failed responses
\* C35: a response with a failing status and no body errors, which is not
\* returned, leaves the soft-error and the ban-strike counters as they were.
C35_FailureKeepsCounters ==
    [][\A c \in Clients :
          (Classified(c) /\ HttpFailure(cl'[c].rep)) => UNCHANGED repVars]_vars

\* ---- the order of the errors
\* C36: the classifier's verdict on a response does not depend on the order
\* its formatted errors are joined in.
C36_VerdictIgnoresOrder ==
    \A c \in Clients :
        (cl[c].pc = "http" /\ cl[c].ctx # None) =>
            \A r \in ClassResponses : \A es \in JoinOrders(r.errs) :
                CheckRep([r EXCEPT !.errs = es], cl[c].ctx, softErr, banStrikes, now)
                    = CheckRep(r, cl[c].ctx, softErr, banStrikes, now)

\* ---- retries within a stream
\* the classifier signals retry-other-account to client c in this step
RetrySignalled(c) == Classified(c) /\ cl'[c].closeThen = "retry"

\* C37: a retry on another account leaves the cursor, the requests made and
\* the pages yielded as they were, and the request sent with the account
\* then borrowed carries the cursor of the failed one; the pages a stream
\* yields are those of a run without retries, none skipped and none twice.
C37_RetryKeepsCursor ==
    /\ [](\A c \in Clients :
            LET run == RunPages(remote, cl[c].startCursor, 0, cl[c].limit)
            IN  /\ IsPrefix(PagesOf(c), run)
                /\ Finished(c) => PagesOf(c) = run
                /\ cl[c].pc \in {"req_wait", "xclid", "http"} =>
                      cl[c].kvCursor = cl[c].reqs[Len(cl[c].reqs)])
    /\ [][\A c \in Clients :
            (RetrySignalled(c) \/ (cl[c].pc = "req_wait" /\ cl'[c].ctx # None)) =>
                /\ cl'[c].kvCursor = cl[c].kvCursor
                /\ cl'[c].reqs = cl[c].reqs
                /\ cl'[c].yielded = cl[c].yielded
                /\ cl'[c].cnt = cl[c].cnt]_vars

\* a stream ran through the whole timeline although one of its requests,
\* after the first page, was sent to a second account
C37_Witness ==
    \E c \in Clients, a \in Accounts :
        /\ Finished(c) /\ Len(cl[c].yielded) = NPages /\ budget = 0
        /\ reqCount[a][cl[c].queue] > 0
        /\ reqCount[a][cl[c].queue] < NPages

\* ---- progress
\* client c is inside a call of req: waiting for an account, for its token
\* generator or for the response, or releasing an account before the next
\* iteration
InReq(c) ==
    \/ cl[c].pc \in {"req_wait", "xclid", "http"}
    \/ cl[c].pc \in {"close_aclose", "close_pool"} /\ cl[c].closeThen \in {"retry", "loop"}

\* C38: under the fair scheduler, with an active account whose locks expire
\* and a transport that fails a bounded number of times, every call of req
\* comes to an end.
C38_EveryCallEnds ==
    \A c \in Clients : InReq(c) ~> ~InReq(c)

\* ---- one release for one acquisition
\* a call on the pool releases an account in this step: it is made by the
\* client the account is borrowed by, for the queue it is borrowed for
PoolCallsAreReleases ==
    (poolVars' # poolVars /\ borrowedBy' # borrowedBy /\ \A c \in Clients : cl'[c].ctx = cl[c].ctx) =>
        \E c \in Clients :
            /\ cl[c].pc = "close_pool"
            /\ borrowedBy[cl[c].closeAcc][cl[c].queue] = c
            /\ borrowedBy'[cl[c].closeAcc][cl[c].queue] = None

\* a client leaves _close_ctx in this step with the pool call made
CloseCtxReleases ==
    \A c \in Clients :
        (cl[c].pc \in {"close_aclose", "close_pool"}
            /\ cl'[c].pc \notin {"close_aclose", "close_pool"}) =>
                /\ cl[c].pc = "close_pool"
                /\ borrowedBy'[cl[c].closeAcc][cl[c].queue] = None

\* C39: an acquisition is ended by one call on the pool and by one only: no
\* call is made for an account that is not held, and _close_ctx, once it
\* cleared self.ctx, is not left before its call was made.
C39_ExactlyOneRelease ==
    [][PoolCallsAreReleases /\ CloseCtxReleases]_vars

\* ---- the Ctx when the classifier is left
\* the classifier's verdict on the response of this step is to raise
\* HandledError
VerdictHandled(c) ==
    /\ Classified(c)
    /\ CheckRep(cl'[c].rep, cl[c].ctx, softErr, banStrikes, now).act = "handled"

\* HandledError reaches req in this step: the _close_ctx the classifier
\* awaited before raising it has returned
HandledRaised(c) ==
    /\ cl[c].pc = "close_pool" /\ cl[c].closeThen = "retry"
    /\ cl'[c].pc # "close_pool"

\* C40: when the classifier signals retry-other-account it has cleared
\* self.ctx and begun the release of that account, and when the signal
\* reaches req the account is released and req waits for the pool; when the
\* classifier returns or aborts, no call on the pool is made and the account
\* is still borrowed: the Ctx is held, or handed to the closing of the
\* stream that follows.
C40_RetryReleasedElseHeld ==
    [][\A c \in Clients :
          LET a == cl[c].ctx
          IN  /\ VerdictHandled(c) =>
                    /\ cl'[c].ctx = None
                    /\ cl'[c].pc = "close_aclose" /\ cl'[c].closeAcc = a
                    /\ cl'[c].closeThen = "retry"
                    /\ a # None
              /\ HandledRaised(c) =>
                    /\ cl'[c].pc = "req_wait" /\ cl'[c].ctx = None
                    /\ borrowedBy'[cl[c].closeAcc][cl[c].queue] # c
              /\ (Classified(c) /\ ~VerdictHandled(c)) =>
                    /\ UNCHANGED poolVars
                    /\ borrowedBy[a][cl[c].queue] = c
                    /\ \/ cl'[c].ctx = a
                       \/ cl'[c].closeAcc = a /\ cl'[c].closeThen = "exit"]_vars

\* a call waits for the pool with nothing borrowed after the ban-strike
\* policy released its account and the retry signal was raised
C40_Witness ==
    \E c \in Clients :
        /\ cl[c].pc = "req_wait" /\ cl[c].rule = "ban" /\ cl[c].ctx = None
        /\ \A a \in Accounts : borrowedBy[a][cl[c].queue] # c
        /\ banStrikes # EmptyDict

====
